---- MODULE Spec2Model ----
(***************************************************************************)
(* A model of the TypeORM/PostgreSQL criteria translator: the parameter    *)
(* manager, the filter fragment builder and its operator handlers, the     *)
(* condition builder (group bracketing and keyset cursors), the query      *)
(* state, the join applier, the query applier and the translator that      *)
(* orchestrates them.  The query builder the translator writes to is kept  *)
(* as the list of calls it received.                                        *)
(***************************************************************************)
EXTENDS Integers, Sequences, FiniteSets, TLC

VARIABLES
  pc,            \* position of the running translate call:
                 \*   idle, joins, relids, order, select, done, error
  criteria,      \* the RootCriteria of the running call
  pendingJoins,  \* joins still to visit, depth first, each with its parent alias
  paramCounter,  \* TypeOrmParameterManager.paramCounter
  qs,            \* QueryState: selects, orderBy, hasWhere, cursors, cursorApplied
  qb,            \* the SelectQueryBuilder of the running call, as the calls it received:
                 \*   aliases, wheres, joins, params, take, skip, orderBys, select,
                 \*   relationIds
  joinLog,       \* one entry per join applyJoinLogic has processed in the running call
  thrown,        \* the message of the Error the running call threw, "" when none
  calls,         \* translate calls entered on this translator instance
  fragment,      \* what the last visitFilter call on this translator returned or threw
  returned       \* what each finished call handed back: its criteria, how it ended
                 \*   (done or error, and the Error thrown) and the query builder as
                 \*   it left it

vars ==
  <<pc, criteria, pendingJoins, paramCounter, qs, qb, joinLog, thrown, calls, fragment,
    returned>>

-----------------------------------------------------------------------------
(* Values.  A SQL value is NULL or an integer.  A filter value is a list   *)
(* of entries: a scalar is one entry with an empty key, a pair (BETWEEN)   *)
(* is two, an object is one entry per key in insertion order.              *)

NullVal == [isNull |-> TRUE, v |-> 0]

Val(n) == [isNull |-> FALSE, v |-> n]

Entry(k, x) == [k |-> k, x |-> x]

Scalar(x) == <<Entry("", x)>>

-----------------------------------------------------------------------------
(* SQL text is kept as a list of tokens: brackets, connectives and atomic  *)
(* conditions.  An atom names its column expression, its operator and the  *)
(* parameter names it mentions.                                            *)

Tok(t) == [t |-> t, f |-> "", o |-> "", p |-> <<>>]

Atom(f, o, p) == [t |-> "atom", f |-> f, o |-> o, p |-> p]

LP == Tok("(")

RP == Tok(")")

Connective(lop) == IF lop = "AND" THEN Tok("AND") ELSE Tok("OR")

-----------------------------------------------------------------------------
(* TypeOrmParameterManager                                                 *)

ParamName(n) == "param_" \o ToString(n)

GenerateParamNameStuck(counter) == [name |-> ParamName(counter), counter |-> counter]

GenerateParamName(counter) == [name |-> ParamName(counter), counter |-> counter + 1]

ResetParamCounter == 0

Bind(name, x) == [name |-> name, x |-> x]

-----------------------------------------------------------------------------
(* Operator handlers.  Each returns the fragment, the parameters it binds  *)
(* and the parameter counter it leaves behind.                             *)

Fragment(toks, parameters, counter) ==
  [queryFragment |-> toks, parameters |-> parameters, counter |-> counter]

IsObject(value) == \A i \in DOMAIN value : value[i].k # ""

BasicComparisonHandler(operatorString, fieldName, filter, counter) ==
  LET g == GenerateParamName(counter)
  IN  Fragment(<<Atom(fieldName, operatorString, <<g.name>>)>>,
               <<Bind(g.name, filter.value[1].x)>>, g.counter)

NullComparisonHandler(not, fieldName, filter, counter) ==
  Fragment(<<Atom(fieldName, IF not THEN "IS NOT NULL" ELSE "IS NULL", <<>>)>>,
           <<>>, counter)

BetweenComparisonHandlerOneName(not, fieldName, filter, counter) ==
  LET g1 == GenerateParamName(counter)
  IN  Fragment(<<Atom(fieldName, IF not THEN "NOT BETWEEN" ELSE "BETWEEN",
                      <<g1.name, g1.name>>)>>,
               <<Bind(g1.name, filter.value[1].x), Bind(g1.name, filter.value[2].x)>>,
               g1.counter)

BetweenComparisonHandler(not, fieldName, filter, counter) ==
  LET g1 == GenerateParamName(counter)
      g2 == GenerateParamName(g1.counter)
  IN  Fragment(<<Atom(fieldName, IF not THEN "NOT BETWEEN" ELSE "BETWEEN",
                      <<g1.name, g2.name>>)>>,
               <<Bind(g1.name, filter.value[1].x), Bind(g2.name, filter.value[2].x)>>,
               g2.counter)

SetContainsHandlerPlainNegation(not, fieldName, filter, counter) ==
  LET g == GenerateParamName(counter)
      member == Atom(fieldName, "CONTAINS", <<g.name>>)
  IN  Fragment(IF not THEN <<Tok("NOT"), LP, member, RP>> ELSE <<member>>,
               <<Bind(g.name, filter.value[1].x)>>, g.counter)

SetContainsHandler(not, fieldName, filter, counter) ==
  LET g == GenerateParamName(counter)
      member == Atom(fieldName, "CONTAINS", <<g.name>>)
  IN  Fragment(IF not
                 THEN <<LP, Atom(fieldName, "IS NULL", <<>>), Tok("OR"), Tok("NOT"),
                        LP, member, RP, RP>>
                 ELSE <<member>>,
               <<Bind(g.name, filter.value[1].x)>>, g.counter)

(* The pattern function of a LIKE handler: the value itself, or the value  *)
(* between, before or behind "%".                                          *)
ApplyPattern(pattern, x) == IF pattern = "v" THEN x ELSE [like |-> pattern, of |-> x]

LikeComparisonHandler(pattern, not, useIlike, fieldName, filter, counter) ==
  LET g == GenerateParamName(counter)
      operator == IF useIlike THEN "ILIKE" ELSE "LIKE"
  IN  Fragment(<<Atom(fieldName, (IF not THEN "NOT " ELSE "") \o operator, <<g.name>>)>>,
               <<Bind(g.name, ApplyPattern(pattern, filter.value[1].x))>>, g.counter)

InComparisonHandler(not, fieldName, filter, counter) ==
  LET g == GenerateParamName(counter)
  IN  Fragment(<<Atom(fieldName, IF not THEN "NOT IN" ELSE "IN", <<g.name>>)>>,
               <<Bind(g.name, [i \in DOMAIN filter.value |-> filter.value[i].x])>>,
               g.counter)

RegexComparisonHandler(fieldName, filter, counter) ==
  LET g == GenerateParamName(counter)
  IN  Fragment(<<Atom(fieldName, "~", <<g.name>>)>>,
               <<Bind(g.name, filter.value[1].x)>>, g.counter)

RECURSIVE SetConditions(_, _, _, _, _, _)
SetConditions(not, logicalOperator, fieldName, values, i, acc) ==
  IF i > Len(values) THEN acc
  ELSE LET g == GenerateParamName(acc.counter)
           condition == Atom(fieldName, "CONTAINS", <<g.name>>)
       IN  SetConditions(not, logicalOperator, fieldName, values, i + 1,
             Fragment((IF acc.queryFragment = <<>> THEN <<>>
                       ELSE acc.queryFragment \o <<Tok(logicalOperator)>>)
                        \o (IF not THEN <<Tok("NOT"), LP, condition, RP>>
                            ELSE <<condition>>),
                      Append(acc.parameters, Bind(g.name, values[i].x)),
                      g.counter))

SetContainsAnyAllHandler(not, fieldName, filter, counter) ==
  LET values == filter.value
      isAllOperator == filter.operator \in {"SET_CONTAINS_ALL", "SET_NOT_CONTAINS_ALL"}
      logicalOperator == IF isAllOperator THEN (IF not THEN "OR" ELSE "AND")
                         ELSE (IF not THEN "AND" ELSE "OR")
      combined == SetConditions(not, logicalOperator, fieldName, values, 1,
                                Fragment(<<>>, <<>>, counter))
  IN  IF Len(values) = 0 THEN Fragment(<<Atom("1", "=", <<"1">>)>>, <<>>, counter)
      ELSE Fragment(<<LP, Atom(fieldName, IF not THEN "IS NULL" ELSE "IS NOT NULL", <<>>),
                      Tok(IF not THEN "OR" ELSE "AND"), LP>>
                      \o combined.queryFragment \o <<RP, RP>>,
                    combined.parameters, combined.counter)

RECURSIVE JsonPathConditions(_, _, _, _, _)
JsonPathConditions(op, fieldName, value, i, acc) ==
  IF i > Len(value) THEN acc
  ELSE LET g == GenerateParamName(acc.counter)
           condition == Atom(fieldName \o " #>> " \o value[i].k, op, <<g.name>>)
       IN  JsonPathConditions(op, fieldName, value, i + 1,
             Fragment((IF acc.queryFragment = <<>> THEN <<>>
                       ELSE acc.queryFragment \o <<Tok("AND")>>) \o <<condition>>,
                      Append(acc.parameters, Bind(g.name, value[i].x)),
                      g.counter))

JsonPathValueEqualsHandler(fieldName, filter, counter) ==
  IF ~IsObject(filter.value)
    THEN Fragment(<<Atom("1", "=", <<"0">>)>>, <<>>, counter)
  ELSE IF filter.value = <<>>
    THEN Fragment(<<Atom("1", "=", <<"1">>)>>, <<>>, counter)
  ELSE JsonPathConditions(
         IF filter.operator = "JSON_PATH_VALUE_EQUALS" THEN "=" ELSE "!=",
         fieldName, filter.value, 1, Fragment(<<>>, <<>>, counter))

(* A value that is an array, as an element of an object or of an array.    *)
ListVal(elements) == [elements |-> elements]

IsListVal(x) == "elements" \in DOMAIN x

(* An array as a filter value: its keys are its indexes.                   *)
ArrayOf(xs) == [i \in DOMAIN xs |-> Entry(ToString(i - 1), xs[i])]

IsArray(value) == value # <<>> /\ \A i \in DOMAIN value : value[i].k = ToString(i - 1)

(* JSON.stringify of the structure that nests current under the path (of   *)
(* current itself when there is no path).                                  *)
JsonStructure(path, current) == [isNull |-> FALSE, path |-> path, current |-> current]

ElementValue(value) ==
  IF value = <<>> THEN NullVal
  ELSE IF IsArray(value) THEN ListVal([i \in DOMAIN value |-> value[i].x])
  ELSE value[1].x

ArrayContainsElementHandler(fieldName, filter, counter) ==
  LET value == filter.value
      isPlainObject == IsObject(value) /\ value # <<>> /\ ~IsArray(value)
      path == IF isPlainObject THEN value[1].k ELSE ""
      g == GenerateParamName(counter)
      isNotContains == filter.operator = "ARRAY_NOT_CONTAINS_ELEMENT"
  IN  Fragment((IF isNotContains THEN <<Tok("NOT")>> ELSE <<>>)
                 \o <<Atom(fieldName, "@>", <<g.name>>)>>,
               <<Bind(g.name, JsonStructure(path, ListVal(<<ElementValue(value)>>)))>>,
               g.counter)

RECURSIVE ElementConditions(_, _, _, _, _, _)
ElementConditions(not, fieldName, path, elements, i, acc) ==
  IF i > Len(elements) THEN acc
  ELSE LET g == GenerateParamName(acc.counter)
           condition == Atom(fieldName, "@>", <<g.name>>)
       IN  ElementConditions(not, fieldName, path, elements, i + 1,
             Fragment((IF acc.queryFragment = <<>> THEN <<>>
                       ELSE acc.queryFragment \o <<Tok(IF not THEN "AND" ELSE "OR")>>)
                        \o (IF not THEN <<Tok("NOT"), LP, condition, RP>>
                            ELSE <<condition>>),
                      Append(acc.parameters,
                             Bind(g.name, JsonStructure(path, ListVal(<<elements[i]>>)))),
                      g.counter))

ArrayContainsAnyAllElementsHandler(not, fieldName, filter, counter) ==
  LET path == filter.value[1].k
      elements == filter.value[1].x.elements
      isAllOperator ==
        filter.operator \in {"ARRAY_CONTAINS_ALL_ELEMENTS", "ARRAY_NOT_CONTAINS_ALL_ELEMENTS"}
      g == GenerateParamName(counter)
      condition == (IF not THEN <<Tok("NOT")>> ELSE <<>>)
                     \o <<Atom(fieldName, "@>", <<g.name>>)>>
      joined == ElementConditions(not, fieldName, path, elements, 1,
                                  Fragment(<<>>, <<>>, counter))
  IN  IF Len(elements) = 0 THEN Fragment(<<Atom("1", "=", <<"1">>)>>, <<>>, counter)
      ELSE IF isAllOperator
        THEN Fragment(IF not
                        THEN <<LP, Atom(fieldName, "IS NULL", <<>>), Tok("OR")>>
                               \o condition \o <<RP>>
                      ELSE condition,
                      <<Bind(g.name, JsonStructure(path, ListVal(elements)))>>, g.counter)
      ELSE Fragment(IF not
                      THEN <<LP, Atom(fieldName, "IS NULL", <<>>), Tok("OR"), LP>>
                             \o joined.queryFragment \o <<RP, RP>>
                    ELSE <<LP>> \o joined.queryFragment \o <<RP>>,
                    joined.parameters, joined.counter)

(* A filter value as JSON.stringify sees it: an array, an object with its  *)
(* keys, or a scalar.                                                      *)
JsValue(value) ==
  IF IsArray(value) THEN ListVal([i \in DOMAIN value |-> value[i].x])
  ELSE IF IsObject(value) THEN [entries |-> value]
  ELSE value[1].x

JsonContainsHandler(fieldName, filter, counter) ==
  LET g == GenerateParamName(counter)
      isNotContains == filter.operator = "JSON_NOT_CONTAINS"
  IN  IF ~IsObject(filter.value)
        THEN Fragment(<<Atom("1", "=", <<"0">>)>>, <<>>, counter)
      ELSE Fragment((IF isNotContains THEN <<Tok("NOT")>> ELSE <<>>)
                      \o <<Atom(fieldName, "@>", <<g.name>>)>>,
                    <<Bind(g.name, JsonStructure("", JsValue(filter.value)))>>, g.counter)

(* The conditions of one path of JSON_CONTAINS_ANY and its negation: one   *)
(* containment per value, in brackets when there are several.              *)
InBrackets(several, conditions) ==
  IF several
    THEN Fragment(<<LP>> \o conditions.queryFragment \o <<RP>>, conditions.parameters,
                  conditions.counter)
  ELSE conditions

SinglePathValueConditions(not, fieldName, path, valuesToSearch, counter) ==
  InBrackets(Len(valuesToSearch) > 1,
             ElementConditions(not, fieldName, path, valuesToSearch, 1,
                               Fragment(<<>>, <<>>, counter)))

(* The condition of one path: one containment of all the values for        *)
(* JSON_CONTAINS_ALL and its negation, one per value otherwise.            *)
PathCondition(not, isAllOperator, fieldName, path, valuesToSearch, counter) ==
  LET g == GenerateParamName(counter)
  IN  IF isAllOperator
        THEN Fragment(IF not THEN <<Tok("NOT"), LP, Atom(fieldName, "@>", <<g.name>>), RP>>
                      ELSE <<Atom(fieldName, "@>", <<g.name>>)>>,
                      <<Bind(g.name, JsonStructure(path, ListVal(valuesToSearch)))>>,
                      g.counter)
      ELSE SinglePathValueConditions(not, fieldName, path, valuesToSearch, counter)

PushPathCondition(not, acc, one) ==
  Fragment((IF acc.queryFragment = <<>> THEN <<>>
            ELSE acc.queryFragment \o <<Tok(IF not THEN "OR" ELSE "AND")>>)
             \o one.queryFragment,
           acc.parameters \o one.parameters, one.counter)

RECURSIVE PathConditions(_, _, _, _, _, _)
PathConditions(not, isAllOperator, fieldName, value, i, acc) ==
  IF i > Len(value) THEN acc
  ELSE IF ~IsListVal(value[i].x) \/ value[i].x.elements = <<>>
    THEN PathConditions(not, isAllOperator, fieldName, value, i + 1, acc)
  ELSE PathConditions(not, isAllOperator, fieldName, value, i + 1,
         PushPathCondition(not, acc,
           PathCondition(not, isAllOperator, fieldName, value[i].k, value[i].x.elements,
                         acc.counter)))

CombinedPathConditions(not, fieldName, combined, counter) ==
  IF combined.queryFragment = <<>>
    THEN Fragment(<<Atom("1", "=", <<"1">>)>>, <<>>, counter)
  ELSE Fragment(<<LP, Atom(fieldName, IF not THEN "IS NULL" ELSE "IS NOT NULL", <<>>),
                  Tok(IF not THEN "OR" ELSE "AND")>>
                  \o combined.queryFragment \o <<RP>>,
                combined.parameters, combined.counter)

JsonContainsAnyAllHandler(not, fieldName, filter, counter) ==
  IF ~IsObject(filter.value)
    THEN Fragment(<<Atom("1", "=", <<"0">>)>>, <<>>, counter)
  ELSE CombinedPathConditions(not, fieldName,
         PathConditions(not,
                        filter.operator \in {"JSON_CONTAINS_ALL", "JSON_NOT_CONTAINS_ALL"},
                        fieldName, filter.value, 1, Fragment(<<>>, <<>>, counter)),
         counter)

(* The name is drawn before the value is looked at: a value that is        *)
(* neither an array nor an object with an array under its first key takes  *)
(* a name and binds nothing.                                               *)
ArrayEqualsStrictHandler(not, fieldName, filter, counter) ==
  LET g == GenerateParamName(counter)
      value == filter.value
      nested == IsObject(value) /\ value # <<>> /\ IsListVal(value[1].x)
      expression == IF IsArray(value) THEN fieldName
                    ELSE fieldName \o "->'" \o value[1].k \o "'"
      arrayValue == IF IsArray(value) THEN JsValue(value) ELSE value[1].x
      comparisonPart == Atom(expression, "=", <<g.name>>)
  IN  IF ~IsArray(value) /\ ~nested
        THEN Fragment(<<Atom("1", "=", <<"0">>)>>, <<>>, g.counter)
      ELSE Fragment(IF not
                      THEN <<LP, Atom(expression, "IS NULL", <<>>), Tok("OR"), Tok("NOT"),
                             LP, comparisonPart, RP, RP>>
                    ELSE <<LP, comparisonPart, RP>>,
                    <<Bind(g.name, JsonStructure("", arrayValue))>>, g.counter)

-----------------------------------------------------------------------------
(* TypeOrmFilterFragmentBuilder: the operators registered here are the     *)
(* ones the filters of this model use.  A result with ok = FALSE stands    *)
(* for a throw, error being the message of the Error.                      *)

operatorHandlers ==
  {"EQUALS", "NOT_EQUALS", "GREATER_THAN", "GREATER_THAN_OR_EQUALS", "LESS_THAN",
   "LESS_THAN_OR_EQUALS", "LIKE", "NOT_LIKE", "CONTAINS", "NOT_CONTAINS", "STARTS_WITH",
   "ENDS_WITH", "ILIKE", "NOT_ILIKE", "IN", "NOT_IN", "IS_NULL", "IS_NOT_NULL",
   "BETWEEN", "NOT_BETWEEN", "MATCHES_REGEX", "SET_CONTAINS", "SET_NOT_CONTAINS",
   "SET_CONTAINS_ANY", "SET_NOT_CONTAINS_ANY", "SET_CONTAINS_ALL", "SET_NOT_CONTAINS_ALL",
   "JSON_PATH_VALUE_EQUALS", "JSON_PATH_VALUE_NOT_EQUALS", "ARRAY_CONTAINS_ELEMENT",
   "ARRAY_NOT_CONTAINS_ELEMENT", "ARRAY_CONTAINS_ANY_ELEMENT",
   "ARRAY_NOT_CONTAINS_ANY_ELEMENT", "ARRAY_CONTAINS_ALL_ELEMENTS",
   "ARRAY_NOT_CONTAINS_ALL_ELEMENTS", "JSON_CONTAINS", "JSON_NOT_CONTAINS",
   "JSON_CONTAINS_ANY", "JSON_NOT_CONTAINS_ANY", "JSON_CONTAINS_ALL",
   "JSON_NOT_CONTAINS_ALL", "ARRAY_EQUALS_STRICT", "ARRAY_NOT_EQUALS_STRICT"}

QualifiedField(alias, field) == alias \o "." \o field

(* handler.build(fieldName, filter, parameterManager) of the handler       *)
(* registered for the operator.                                            *)
HandlerBuild(op, fieldName, filter, counter) ==
  CASE op = "EQUALS" -> BasicComparisonHandler("=", fieldName, filter, counter)
    [] op = "NOT_EQUALS" -> BasicComparisonHandler("!=", fieldName, filter, counter)
    [] op = "GREATER_THAN" -> BasicComparisonHandler(">", fieldName, filter, counter)
    [] op = "GREATER_THAN_OR_EQUALS" ->
         BasicComparisonHandler(">=", fieldName, filter, counter)
    [] op = "LESS_THAN" -> BasicComparisonHandler("<", fieldName, filter, counter)
    [] op = "LESS_THAN_OR_EQUALS" ->
         BasicComparisonHandler("<=", fieldName, filter, counter)
    [] op = "LIKE" ->
         LikeComparisonHandler("v", FALSE, FALSE, fieldName, filter, counter)
    [] op = "NOT_LIKE" ->
         LikeComparisonHandler("v", TRUE, FALSE, fieldName, filter, counter)
    [] op = "CONTAINS" ->
         LikeComparisonHandler("%v%", FALSE, TRUE, fieldName, filter, counter)
    [] op = "NOT_CONTAINS" ->
         LikeComparisonHandler("%v%", TRUE, TRUE, fieldName, filter, counter)
    [] op = "STARTS_WITH" ->
         LikeComparisonHandler("v%", FALSE, TRUE, fieldName, filter, counter)
    [] op = "ENDS_WITH" ->
         LikeComparisonHandler("%v", FALSE, TRUE, fieldName, filter, counter)
    [] op = "ILIKE" ->
         LikeComparisonHandler("v", FALSE, TRUE, fieldName, filter, counter)
    [] op = "NOT_ILIKE" ->
         LikeComparisonHandler("v", TRUE, TRUE, fieldName, filter, counter)
    [] op = "IN" -> InComparisonHandler(FALSE, fieldName, filter, counter)
    [] op = "NOT_IN" -> InComparisonHandler(TRUE, fieldName, filter, counter)
    [] op = "MATCHES_REGEX" -> RegexComparisonHandler(fieldName, filter, counter)
    [] op \in {"SET_CONTAINS_ANY", "SET_CONTAINS_ALL"} ->
         SetContainsAnyAllHandler(FALSE, fieldName, filter, counter)
    [] op \in {"SET_NOT_CONTAINS_ANY", "SET_NOT_CONTAINS_ALL"} ->
         SetContainsAnyAllHandler(TRUE, fieldName, filter, counter)
    [] op = "IS_NULL" -> NullComparisonHandler(FALSE, fieldName, filter, counter)
    [] op = "IS_NOT_NULL" -> NullComparisonHandler(TRUE, fieldName, filter, counter)
    [] op = "BETWEEN" -> BetweenComparisonHandler(FALSE, fieldName, filter, counter)
    [] op = "NOT_BETWEEN" -> BetweenComparisonHandler(TRUE, fieldName, filter, counter)
    [] op = "SET_CONTAINS" -> SetContainsHandler(FALSE, fieldName, filter, counter)
    [] op = "SET_NOT_CONTAINS" -> SetContainsHandler(TRUE, fieldName, filter, counter)
    [] op \in {"ARRAY_CONTAINS_ELEMENT", "ARRAY_NOT_CONTAINS_ELEMENT"} ->
         ArrayContainsElementHandler(fieldName, filter, counter)
    [] op \in {"ARRAY_CONTAINS_ANY_ELEMENT", "ARRAY_CONTAINS_ALL_ELEMENTS"} ->
         ArrayContainsAnyAllElementsHandler(FALSE, fieldName, filter, counter)
    [] op \in {"ARRAY_NOT_CONTAINS_ANY_ELEMENT", "ARRAY_NOT_CONTAINS_ALL_ELEMENTS"} ->
         ArrayContainsAnyAllElementsHandler(TRUE, fieldName, filter, counter)
    [] op \in {"JSON_CONTAINS", "JSON_NOT_CONTAINS"} ->
         JsonContainsHandler(fieldName, filter, counter)
    [] op \in {"JSON_CONTAINS_ANY", "JSON_CONTAINS_ALL"} ->
         JsonContainsAnyAllHandler(FALSE, fieldName, filter, counter)
    [] op \in {"JSON_NOT_CONTAINS_ANY", "JSON_NOT_CONTAINS_ALL"} ->
         JsonContainsAnyAllHandler(TRUE, fieldName, filter, counter)
    [] op = "ARRAY_EQUALS_STRICT" ->
         ArrayEqualsStrictHandler(FALSE, fieldName, filter, counter)
    [] op = "ARRAY_NOT_EQUALS_STRICT" ->
         ArrayEqualsStrictHandler(TRUE, fieldName, filter, counter)
    [] OTHER -> JsonPathValueEqualsHandler(fieldName, filter, counter)

Built(r) ==
  [ok |-> TRUE, error |-> "", queryFragment |-> r.queryFragment,
   parameters |-> r.parameters, counter |-> r.counter]

BuildWithDefaultHandler(filter, currentAlias, counter) ==
  Built(HandlerBuild(filter.operator, QualifiedField(currentAlias, filter.field), filter,
                     counter))

Build(filter, currentAlias, counter) ==
  IF filter.operator \notin operatorHandlers
    THEN [ok |-> FALSE, error |-> "Unsupported filter operator: " \o filter.operator,
          queryFragment |-> <<>>, parameters |-> <<>>, counter |-> counter]
  ELSE Built(HandlerBuild(filter.operator, QualifiedField(currentAlias, filter.field),
                          filter, counter))

-----------------------------------------------------------------------------
(* Filter expressions: a Filter or a FilterGroup of expressions.           *)

Filter(field, operator, value) ==
  [kind |-> "filter", field |-> field, operator |-> operator, value |-> value,
   logicalOperator |-> "", items |-> <<>>]

FilterGroup(logicalOperator, items) ==
  [kind |-> "group", field |-> "", operator |-> "", value |-> <<>>,
   logicalOperator |-> logicalOperator, items |-> items]

-----------------------------------------------------------------------------
(* The query builder's where list.  where() replaces the list by one       *)
(* "simple" clause, andWhere()/orWhere() append; a Brackets clause holds   *)
(* the where list of its own sub-builder and is printed between brackets.  *)

Clause(type, condition) == [type |-> type, condition |-> condition]

QbWhere(wheres, condition) == <<Clause("simple", condition)>>

QbAndWhereReplacing(wheres, condition) == <<Clause("simple", condition)>>

QbAndWhere(wheres, condition) == Append(wheres, Clause("and", condition))

QbOrWhere(wheres, condition) == Append(wheres, Clause("or", condition))

RECURSIVE WhereClausesExpression(_, _)
WhereClausesExpression(wheres, i) ==
  IF i > Len(wheres) THEN <<>>
  ELSE (IF i > 1 /\ wheres[i].type = "and" THEN <<Tok("AND")>>
        ELSE IF i > 1 /\ wheres[i].type = "or" THEN <<Tok("OR")>>
        ELSE <<>>)
       \o wheres[i].condition \o WhereClausesExpression(wheres, i + 1)

BracketsFlat(subWheres) == WhereClausesExpression(subWheres, 1)

Brackets(subWheres) == <<LP>> \o WhereClausesExpression(subWheres, 1) \o <<RP>>

-----------------------------------------------------------------------------
(* TypeOrmConditionBuilder: groups                                         *)

ApplyConditionToQueryBuilder(wheres, conditionOrBracket, isFirstInThisBracket, logicalConnector) ==
  IF isFirstInThisBracket THEN QbWhere(wheres, conditionOrBracket)
  ELSE IF logicalConnector = "AND" THEN QbAndWhere(wheres, conditionOrBracket)
  ELSE QbOrWhere(wheres, conditionOrBracket)

Applied(error, wheres, parameters, counter) ==
  [ok |-> error = "", error |-> error, wheres |-> wheres, parameters |-> parameters,
   counter |-> counter]

(* processGroupItems on the builder whose where list is acc.wheres; a      *)
(* handler that throws ends the walk with ok = FALSE.                      *)
RECURSIVE ProcessGroupItems(_, _, _, _, _)
ProcessGroupItems(items, currentAlias, groupLogicalOperator, index, acc) ==
  IF ~acc.ok \/ index > Len(items) THEN acc
  ELSE LET item == items[index]
           isFirstItemInThisBracket == (index = 1)
       IN  IF item.kind = "filter"
             THEN LET b == Build(item, currentAlias, acc.counter)
                  IN  IF ~b.ok
                        THEN Applied(b.error, acc.wheres, acc.parameters, b.counter)
                      ELSE ProcessGroupItems(items, currentAlias, groupLogicalOperator,
                             index + 1,
                             Applied("",
                               ApplyConditionToQueryBuilder(acc.wheres, b.queryFragment,
                                 isFirstItemInThisBracket, groupLogicalOperator),
                               acc.parameters \o b.parameters, b.counter))
           ELSE LET sub == ProcessGroupItems(item.items, currentAlias,
                             item.logicalOperator, 1,
                             Applied("", <<>>, acc.parameters, acc.counter))
                IN  IF ~sub.ok
                      THEN Applied(sub.error, acc.wheres, sub.parameters, sub.counter)
                    ELSE ProcessGroupItems(items, currentAlias, groupLogicalOperator,
                           index + 1,
                           Applied("",
                             ApplyConditionToQueryBuilder(acc.wheres, Brackets(sub.wheres),
                               isFirstItemInThisBracket, groupLogicalOperator),
                             sub.parameters, sub.counter))

(* buildConditionStringFromGroup.  A part is what processItemRecursive     *)
(* returns for one item (n = 0: undefined); the parts that are defined are *)
(* joined by the connective of their group.                                *)
Joined(error, n, toks, parameters, counter) ==
  [ok |-> error = "", error |-> error, n |-> n, toks |-> toks, parameters |-> parameters,
   counter |-> counter]

FilterPart(b) == Joined(b.error, 1, b.queryFragment, b.parameters, b.counter)

GroupPartFlat(sub) ==
  Joined(sub.error, IF sub.n = 0 THEN 0 ELSE 1, sub.toks, sub.parameters, sub.counter)

GroupPart(sub) ==
  Joined(sub.error, IF sub.n = 0 THEN 0 ELSE 1,
         IF sub.n = 0 THEN <<>> ELSE <<LP>> \o sub.toks \o <<RP>>,
         sub.parameters, sub.counter)

PushCondition(acc, logicalOperator, part) ==
  IF ~part.ok
    THEN Joined(part.error, acc.n, acc.toks, acc.parameters \o part.parameters,
                part.counter)
  ELSE Joined("", acc.n + part.n,
              IF part.n = 0 THEN acc.toks
              ELSE IF acc.n = 0 THEN part.toks
              ELSE acc.toks \o <<Connective(logicalOperator)>> \o part.toks,
              acc.parameters \o part.parameters, part.counter)

RECURSIVE JoinConditions(_, _, _, _, _)
RECURSIVE ProcessItemRecursive(_, _, _)
JoinConditions(items, alias, logicalOperator, index, acc) ==
  IF ~acc.ok \/ index > Len(items) THEN acc
  ELSE JoinConditions(items, alias, logicalOperator, index + 1,
         PushCondition(acc, logicalOperator,
                       ProcessItemRecursive(items[index], alias, acc.counter)))

ProcessItemRecursive(item, alias, counter) ==
  IF item.kind = "filter" THEN FilterPart(Build(item, alias, counter))
  ELSE GroupPart(JoinConditions(item.items, alias, item.logicalOperator, 1,
                                Joined("", 0, <<>>, <<>>, counter)))

ConditionResult(r) ==
  [ok |-> r.ok, error |-> r.error, defined |-> r.ok /\ r.n > 0, conditionString |-> r.toks,
   parameters |-> r.parameters, counter |-> r.counter]

BuildConditionStringFromGroup(group, aliasForGroupItems, counter) ==
  ConditionResult(JoinConditions(group.items, aliasForGroupItems, group.logicalOperator,
                                 1, Joined("", 0, <<>>, <<>>, counter)))

-----------------------------------------------------------------------------
(* TypeOrmConditionBuilder: keyset cursors.  A cursor filter is            *)
(* [field, operator, value] with the field already qualified.              *)

CursorFilter(field, operator, value) ==
  [field |-> field, operator |-> operator, value |-> value]

CursorOp(filter) == IF filter.operator = "GREATER_THAN" THEN ">" ELSE "<"

BuildSingleFieldCursorConditionBindingNull(filter, counter) ==
  LET g == GenerateParamName(counter)
  IN  Fragment(<<LP, Atom(filter.field, CursorOp(filter), <<g.name>>), RP>>,
               <<Bind(g.name, filter.value)>>, g.counter)

BuildSingleFieldCursorCondition(filter, counter) ==
  LET op == CursorOp(filter)
      fieldName == filter.field
      value == filter.value
  IN  IF value.isNull
        THEN Fragment(<<LP>> \o (IF op = ">"
                                   THEN <<Atom(fieldName, "IS NOT NULL", <<>>)>>
                                   ELSE <<Atom("1", "=", <<"0">>)>>) \o <<RP>>,
                      <<>>, counter)
      ELSE LET g == GenerateParamName(counter)
           IN  Fragment(<<LP, Atom(fieldName, op, <<g.name>>), RP>>,
                        <<Bind(g.name, value)>>, g.counter)

BuildCompositeAscending(filter1, filter2, counter) ==
  LET field1Name == filter1.field
      value1 == filter1.value
      field2Name == filter2.field
      value2 == filter2.value
  IN  IF value1.isNull
        THEN LET paramName2 == GenerateParamName(counter)
             IN  Fragment(<<LP, Atom(field1Name, "IS NULL", <<>>), Tok("AND"),
                            Atom(field2Name, ">", <<paramName2.name>>), RP>>,
                          <<Bind(paramName2.name, value2)>>, paramName2.counter)
      ELSE LET paramName1 == GenerateParamName(counter)
               paramName2 == GenerateParamName(paramName1.counter)
           IN  Fragment(<<LP,
                            LP, Atom(field1Name, ">", <<paramName1.name>>), RP,
                            Tok("OR"),
                            LP, Atom(field1Name, "=", <<paramName1.name>>), Tok("AND"),
                                Atom(field2Name, ">", <<paramName2.name>>), RP,
                            Tok("OR"),
                            LP, Atom(field1Name, "IS NULL", <<>>), RP,
                          RP>>,
                        <<Bind(paramName1.name, value1), Bind(paramName2.name, value2)>>,
                        paramName2.counter)

BuildCompositeDescendingNoNulls(filter1, filter2, counter) ==
  LET field1Name == filter1.field
      value1 == filter1.value
      field2Name == filter2.field
      value2 == filter2.value
  IN  IF value1.isNull
        THEN LET paramName2 == GenerateParamName(counter)
             IN  Fragment(<<LP, Atom(field1Name, "IS NULL", <<>>), Tok("AND"),
                            Atom(field2Name, "<", <<paramName2.name>>), RP>>,
                          <<Bind(paramName2.name, value2)>>, paramName2.counter)
      ELSE LET paramName1 == GenerateParamName(counter)
               paramName2 == GenerateParamName(paramName1.counter)
           IN  Fragment(<<LP,
                            LP, Atom(field1Name, "<", <<paramName1.name>>), RP,
                            Tok("OR"),
                            LP, Atom(field1Name, "=", <<paramName1.name>>), Tok("AND"),
                                Atom(field2Name, "<", <<paramName2.name>>), RP,
                          RP>>,
                        <<Bind(paramName1.name, value1), Bind(paramName2.name, value2)>>,
                        paramName2.counter)

BuildCompositeDescending(filter1, filter2, counter) ==
  LET field1Name == filter1.field
      value1 == filter1.value
      field2Name == filter2.field
      value2 == filter2.value
  IN  IF value1.isNull
        THEN LET paramName2 == GenerateParamName(counter)
             IN  Fragment(<<LP, Atom(field1Name, "IS NULL", <<>>), Tok("AND"),
                            Atom(field2Name, "<", <<paramName2.name>>), RP>>,
                          <<Bind(paramName2.name, value2)>>, paramName2.counter)
      ELSE LET paramName1 == GenerateParamName(counter)
               paramName2 == GenerateParamName(paramName1.counter)
           IN  Fragment(<<LP,
                            LP, Atom(field1Name, "<", <<paramName1.name>>), RP,
                            Tok("OR"),
                            LP, Atom(field1Name, "=", <<paramName1.name>>), Tok("AND"),
                                Atom(field2Name, "<", <<paramName2.name>>), RP,
                            Tok("OR"),
                            LP, Atom(field1Name, "IS NULL", <<>>), RP,
                          RP>>,
                        <<Bind(paramName1.name, value1), Bind(paramName2.name, value2)>>,
                        paramName2.counter)

BuildCompositeCursorCondition(filter1, filter2, counter) ==
  IF CursorOp(filter1) = ">"
    THEN BuildCompositeAscending(filter1, filter2, counter)
  ELSE BuildCompositeDescending(filter1, filter2, counter)

BuildCursorCondition(filters, counter) ==
  IF Len(filters) = 1
    THEN [ok |-> TRUE, error |-> ""] @@ BuildSingleFieldCursorCondition(filters[1], counter)
  ELSE IF Len(filters) = 2
    THEN [ok |-> TRUE, error |-> ""]
           @@ BuildCompositeCursorCondition(filters[1], filters[2], counter)
  ELSE [ok |-> FALSE,
        error |-> "Cursor pagination is only supported for 1 or 2 fields, but received "
                    \o ToString(Len(filters))
                    \o ". This should have been caught by validation."]
         @@ Fragment(<<>>, <<>>, counter)

-----------------------------------------------------------------------------
(* Criteria.  An order is [field, direction, sequenceId, nullsFirst]; a    *)
(* cursor is [present, filters, order, operator, sequenceId], present      *)
(* FALSE standing for "no cursor".  A join carries the join criteria       *)
(* (joinType, identifierField, rootFilterGroup, joins, orders, cursor,     *)
(* select) and the join parameters (relation_alias, relation_type,         *)
(* parent_alias, parent_identifier, local_field, selectType).              *)

Order(field, direction, sequenceId, nullsFirst) ==
  [field |-> field, direction |-> direction, sequenceId |-> sequenceId,
   nullsFirst |-> nullsFirst]

NoCursor ==
  [present |-> FALSE, filters |-> <<>>, order |-> "", operator |-> "", sequenceId |-> 0]

Cursor(filters, order, operator, sequenceId) ==
  [present |-> TRUE, filters |-> filters, order |-> order, operator |-> operator,
   sequenceId |-> sequenceId]

Range(seq) == {seq[i] : i \in DOMAIN seq}

-----------------------------------------------------------------------------
(* QueryState.  _selects is a Set: it keeps insertion order and ignores a  *)
(* value it already holds.                                                 *)

SetAdd(set, x) == IF x \in Range(set) THEN set ELSE Append(set, x)

RECURSIVE SetAddAll(_, _)
SetAddAll(set, xs) ==
  IF xs = <<>> THEN set ELSE SetAddAll(SetAdd(set, Head(xs)), Tail(xs))

AddFieldToSelection(selects, select) == SetAdd(selects, select)

ResolveSelectsAsListed(selects, alias, c) ==
  SetAddAll(selects, [i \in DOMAIN c.select |-> QualifiedField(alias, c.select[i])])

ResolveSelects(selects, alias, c) ==
  LET fromOrders == [i \in DOMAIN c.orders |-> QualifiedField(alias, c.orders[i].field)]
      fromCursor == IF c.cursor.present
                      THEN [i \in DOMAIN c.cursor.filters |->
                              QualifiedField(alias, c.cursor.filters[i].field)]
                    ELSE <<>>
      fromSelect == [i \in DOMAIN c.select |-> QualifiedField(alias, c.select[i])]
  IN  SetAddAll(SetAddAll(SetAddAll(selects, fromOrders), fromCursor), fromSelect)

CollectCursor(collected, alias, cursor) ==
  IF cursor.present THEN Append(collected, <<alias, cursor>>) ELSE collected

RecordOrderBy(orderBy, orders, alias) ==
  orderBy \o [i \in DOMAIN orders |-> <<alias, orders[i]>>]

(* Array.prototype.sort on the sequenceId of the second component: stable. *)
RECURSIVE InsertBySequenceId(_, _)
InsertBySequenceId(sorted, e) ==
  IF sorted = <<>> THEN <<e>>
  ELSE IF e[2].sequenceId < Head(sorted)[2].sequenceId THEN <<e>> \o sorted
  ELSE <<Head(sorted)>> \o InsertBySequenceId(Tail(sorted), e)

RECURSIVE SortBySequenceId(_)
SortBySequenceId(entries) ==
  IF entries = <<>> THEN <<>>
  ELSE InsertBySequenceId(SortBySequenceId(SubSeq(entries, 1, Len(entries) - 1)),
                          entries[Len(entries)])

SortOrderByAsRecorded(orderBy) == orderBy

SortOrderByWithSequentialId(orderBy) == SortBySequenceId(orderBy)

RECURSIVE CombinedFilters(_, _)
CombinedFilters(collected, i) ==
  IF i > Len(collected) THEN <<>>
  ELSE LET alias == collected[i][1]
           cursor == collected[i][2]
       IN  [k \in DOMAIN cursor.filters |->
              CursorFilter(QualifiedField(alias, cursor.filters[k].field),
                           cursor.filters[k].operator, cursor.filters[k].value)]
           \o CombinedFilters(collected, i + 1)

ProcessAndValidateCursors(collected) ==
  IF collected = <<>>
    THEN [ok |-> TRUE, error |-> "", collected |-> collected, filters |-> <<>>]
  ELSE LET sorted == SortBySequenceId(collected)
           commonDirection == sorted[1][2].order
           commonOperator == sorted[1][2].operator
           filters == CombinedFilters(sorted, 1)
           bad == {i \in DOMAIN sorted :
                     \/ sorted[i][2].order # commonDirection
                     \/ sorted[i][2].operator # commonOperator}
           first == CHOOSE i \in bad : \A k \in bad : i <= k
       IN  IF bad # {}
             THEN [ok |-> FALSE,
                   error |-> IF sorted[first][2].order # commonDirection
                               THEN "All parts of a composite cursor must have the same order direction."
                             ELSE "All parts of a composite cursor must have the same operator.",
                   collected |-> sorted, filters |-> <<>>]
           ELSE IF Len(filters) > 2
             THEN [ok |-> FALSE,
                   error |-> "A combined cursor cannot have more than two fields in total.",
                   collected |-> sorted, filters |-> <<>>]
           ELSE [ok |-> TRUE, error |-> "", collected |-> sorted, filters |-> filters]

-----------------------------------------------------------------------------
(* TypeOrmJoinApplier                                                      *)

SelectTypeOf(parameters) ==
  IF parameters.selectType = "" THEN "FULL_ENTITY" ELSE parameters.selectType

CanOptimizeJoinIgnoringOrders(j) ==
  IF j.relation_type = "many_to_many" THEN FALSE
  ELSE IF SelectTypeOf(j) # "ID_ONLY" THEN FALSE
  ELSE IF Len(j.rootFilterGroup.items) > 0 THEN FALSE
  ELSE IF Len(j.joins) > 0 THEN FALSE
  ELSE j.local_field # j.parent_identifier

CanOptimizeJoin(j) ==
  IF j.relation_type = "many_to_many" THEN FALSE
  ELSE IF SelectTypeOf(j) # "ID_ONLY" THEN FALSE
  ELSE IF Len(j.rootFilterGroup.items) > 0 THEN FALSE
  ELSE IF Len(j.joins) > 0 THEN FALSE
  ELSE IF Len(j.orders) > 0 THEN FALSE
  ELSE j.local_field # j.parent_identifier

Suffixed(baseAlias, counter) == baseAlias \o "_" \o ToString(counter)

RECURSIVE NextFreeSuffix(_, _, _)
NextFreeSuffix(aliases, baseAlias, counter) ==
  IF Suffixed(baseAlias, counter) \in aliases
    THEN NextFreeSuffix(aliases, baseAlias, counter + 1)
  ELSE Suffixed(baseAlias, counter)

ResolveUniqueAliasNoCheck(aliases, baseAlias) == baseAlias

ResolveUniqueAliasFirstSuffix(aliases, baseAlias) ==
  IF baseAlias \notin aliases THEN baseAlias ELSE Suffixed(baseAlias, 1)

ResolveUniqueAlias(aliases, baseAlias) ==
  IF baseAlias \notin aliases THEN baseAlias
  ELSE NextFreeSuffix(aliases, baseAlias, 1)

OnCondition(r) ==
  IF r.defined
    THEN [ok |-> TRUE, error |-> "", onConditionClause |-> r.conditionString,
          onConditionParams |-> r.parameters, counter |-> r.counter]
  ELSE [ok |-> r.ok, error |-> r.error, onConditionClause |-> <<>>,
        onConditionParams |-> <<>>, counter |-> r.counter]

BuildOnCondition(j, joinAlias, counter) ==
  IF Len(j.rootFilterGroup.items) = 0
    THEN [ok |-> TRUE, error |-> "", onConditionClause |-> <<>>,
          onConditionParams |-> <<>>, counter |-> counter]
  ELSE OnCondition(BuildConditionStringFromGroup(j.rootFilterGroup, joinAlias, counter))

ApplyFullEntitySelectionWithoutParent(selects, j, joinAlias) ==
  AddFieldToSelection(
    ResolveSelects(IF Len(j.select) = 0 THEN AddFieldToSelection(selects, joinAlias)
                   ELSE selects, joinAlias, j),
    QualifiedField(joinAlias, j.identifierField))

ApplyFullEntitySelection(selects, j, joinAlias) ==
  LET s1 == IF Len(j.select) = 0 THEN AddFieldToSelection(selects, joinAlias) ELSE selects
      s2 == ResolveSelects(s1, joinAlias, j)
      s3 == AddFieldToSelection(s2, QualifiedField(joinAlias, j.identifierField))
  IN  AddFieldToSelection(s3, QualifiedField(j.parent_alias, j.parent_identifier))

Selection(selects, cursors, orderBy) ==
  [selects |-> selects, cursors |-> cursors, orderBy |-> orderBy]

HandleSelectionAlwaysFull(state, j, joinAlias) ==
  Selection(ApplyFullEntitySelection(state.selects, j, joinAlias),
            CollectCursor(state.cursors, joinAlias, j.cursor),
            RecordOrderBy(state.orderBy, j.orders, joinAlias))

HandleSelection(state, j, joinAlias) ==
  Selection(IF SelectTypeOf(j) = "FULL_ENTITY"
              THEN ApplyFullEntitySelection(state.selects, j, joinAlias)
            ELSE state.selects,
            CollectCursor(state.cursors, joinAlias, j.cursor),
            RecordOrderBy(state.orderBy, j.orders, joinAlias))

ApplyOptimizedSelectionOfRelation(selects, j) ==
  AddFieldToSelection(selects, QualifiedField(j.parent_alias, j.relation_alias))

ApplyOptimizedSelection(selects, j) ==
  AddFieldToSelection(selects, QualifiedField(j.parent_alias, j.local_field))

JoinCall(type, target, alias, condition, parameters) ==
  [type |-> type, target |-> target, alias |-> alias, condition |-> condition,
   parameters |-> parameters]

-----------------------------------------------------------------------------
(* TypeOrmPostgresTranslator: the relation paths handed to                 *)
(* loadAllRelationIds.                                                     *)

RECURSIVE CollectRelationIds(_, _, _)
CollectRelationIds(joins, pathPrefix, i) ==
  IF i > Len(joins) THEN <<>>
  ELSE LET j == joins[i]
           currentPath == IF pathPrefix # "" THEN pathPrefix \o "." \o j.relation_alias
                          ELSE j.relation_alias
       IN  (IF j.selectType = "ID_ONLY" THEN <<currentPath>> ELSE <<>>)
           \o CollectRelationIds(j.joins, currentPath, 1)
           \o CollectRelationIds(joins, pathPrefix, i + 1)

-----------------------------------------------------------------------------
(* QueryState.reset and a query builder that has received no call yet.     *)

ResetKeepingCursors(state) ==
  [selects |-> <<>>, orderBy |-> <<>>, hasWhere |-> FALSE, cursors |-> state.cursors,
   cursorApplied |-> FALSE]

ResetKeepingSelects(state) ==
  [selects |-> state.selects, orderBy |-> <<>>, hasWhere |-> FALSE, cursors |-> <<>>,
   cursorApplied |-> FALSE]

Reset(state) ==
  [selects |-> <<>>, orderBy |-> <<>>, hasWhere |-> FALSE, cursors |-> <<>>,
   cursorApplied |-> FALSE]

NewQueryBuilder(aliases) ==
  [aliases |-> aliases, wheres |-> <<>>, joins |-> <<>>, params |-> <<>>,
   take |-> 0, skip |-> 0, orderBys |-> <<>>, select |-> <<>>, relationIds |-> <<>>]

-----------------------------------------------------------------------------
(* TypeOrmPostgresTranslator.translate, step by step.  A step maps the     *)
(* context of the running call (position, joins to visit, parameter        *)
(* counter, query state, query builder, join log) to the next one; a       *)
(* throw leaves the call at "error" with the message of its Error and with *)
(* what had been done before it.                                           *)

Ctx(p, pending, counter, state, builder, log, error) ==
  [pc |-> p, pendingJoins |-> pending, paramCounter |-> counter, qs |-> state,
   qb |-> builder, joinLog |-> log, thrown |-> error]

(* translate, lines 76-88: reset, root selects, visitRoot, root cursor and *)
(* orders, take and skip.                                                  *)
EnterTranslate(c, counter, oldState) ==
  LET q0 == Reset(oldState)
      q1 == [q0 EXCEPT !.selects = ResolveSelects(q0.selects, c.alias, c)]
      b0 == NewQueryBuilder({c.alias})
      hasRoot == Len(c.rootFilterGroup.items) > 0
      r == ProcessGroupItems(c.rootFilterGroup.items, c.alias,
                             c.rootFilterGroup.logicalOperator, 1,
                             Applied("", <<>>, <<>>, counter))
  IN  IF hasRoot /\ ~r.ok
        THEN Ctx("error", <<>>, r.counter, q1, [b0 EXCEPT !.params = r.parameters], <<>>,
                 r.error)
      ELSE LET b1 == IF hasRoot
                       THEN [b0 EXCEPT !.wheres = QbWhere(b0.wheres, Brackets(r.wheres)),
                                       !.params = r.parameters]
                     ELSE b0
               q2 == [q1 EXCEPT !.hasWhere = hasRoot,
                                !.cursors = CollectCursor(q1.cursors, c.alias, c.cursor),
                                !.orderBy = RecordOrderBy(q1.orderBy, c.orders, c.alias)]
               b2 == [b1 EXCEPT !.take = IF c.take > 0 THEN c.take ELSE 0,
                                !.skip = IF c.skip > 0 /\ ~c.cursor.present
                                           THEN c.skip ELSE 0]
           IN  Ctx("joins", c.joins, IF hasRoot THEN r.counter ELSE counter, q2, b2, <<>>,
                   "")

ReparentKeepingRequested(joins, usedAlias) == joins

Reparent(joins, usedAlias) ==
  [i \in DOMAIN joins |-> [joins[i] EXCEPT !.parent_alias = usedAlias]]

Logged(j, optimized, usedAlias) ==
  [join |-> j, optimized |-> optimized, usedAlias |-> usedAlias]

(* applyJoinLogic past the optimisation test: the join call with the ON    *)
(* condition built for it, then handleSelection; a handler that throws     *)
(* while the ON condition is built ends the call.                          *)
ApplyJoin(x, j, joinAlias, on, sel) ==
  IF ~on.ok THEN [x EXCEPT !.pc = "error", !.thrown = on.error,
                           !.paramCounter = on.counter]
  ELSE [x EXCEPT
          !.paramCounter = on.counter,
          !.qb.joins = Append(x.qb.joins,
                         JoinCall(j.joinType,
                                  QualifiedField(j.parent_alias, j.relation_alias),
                                  joinAlias, on.onConditionClause, on.onConditionParams)),
          !.qb.aliases = x.qb.aliases \cup {joinAlias},
          !.qb.params = x.qb.params \o on.onConditionParams,
          !.qs.selects = sel.selects,
          !.qs.cursors = sel.cursors,
          !.qs.orderBy = sel.orderBy,
          !.joinLog = Append(x.joinLog, Logged(j, FALSE, joinAlias)),
          !.pendingJoins = Reparent(j.joins, joinAlias) \o Tail(x.pendingJoins)]

ApplyJoinLogic(x, j, joinAlias) ==
  ApplyJoin(x, j, joinAlias, BuildOnCondition(j, joinAlias, x.paramCounter),
            HandleSelection(x.qs, j, joinAlias))

(* applyJoinAndVisitChildren: applyJoinLogic, then the child joins are     *)
(* visited under the alias it used.                                        *)
ApplyJoinAndVisitChildren(x, j) ==
  IF CanOptimizeJoin(j)
    THEN [x EXCEPT !.qs.selects = ApplyOptimizedSelection(x.qs.selects, j),
                   !.joinLog = Append(x.joinLog, Logged(j, TRUE, j.relation_alias)),
                   !.pendingJoins = Reparent(j.joins, j.relation_alias)
                                      \o Tail(x.pendingJoins)]
  ELSE ApplyJoinLogic(x, j, ResolveUniqueAlias(x.qb.aliases, j.relation_alias))

VisitOuterJoinAsLeftJoin(x) == ApplyJoinAndVisitChildren(x, Head(x.pendingJoins))

(* visitOuterJoin                                                          *)
VisitOuterJoin(x) ==
  [x EXCEPT !.pc = "error",
            !.thrown = "OuterJoin (FULL OUTER JOIN) is not generically implemented for TypeOrmPostgresTranslator."]

(* accept on the next join: an outer join goes to visitOuterJoin, an inner *)
(* or left join to applyJoinAndVisitChildren.                              *)
VisitJoin(x) ==
  IF Head(x.pendingJoins).joinType = "outer"
    THEN VisitOuterJoin(x)
  ELSE ApplyJoinAndVisitChildren(x, Head(x.pendingJoins))

(* QueryApplier.applyCursors                                               *)
ApplyCursors(x) ==
  IF x.qs.cursorApplied THEN [x EXCEPT !.pc = "relids"]
  ELSE LET v == ProcessAndValidateCursors(x.qs.cursors)
       IN  IF ~v.ok
             THEN [x EXCEPT !.pc = "error", !.thrown = v.error, !.qs.cursors = v.collected]
           ELSE IF Len(v.filters) = 0
             THEN [x EXCEPT !.pc = "relids", !.qs.cursors = v.collected,
                            !.qs.cursorApplied = TRUE]
           ELSE LET cond == BuildCursorCondition(v.filters, x.paramCounter)
                    cursorBracket == Brackets(QbWhere(<<>>, cond.queryFragment))
                IN  [x EXCEPT
                       !.pc = "relids",
                       !.paramCounter = cond.counter,
                       !.qs.cursors = v.collected,
                       !.qs.cursorApplied = TRUE,
                       !.qs.hasWhere = TRUE,
                       !.qb.params = x.qb.params \o cond.parameters,
                       !.qb.wheres = IF x.qs.hasWhere
                                       THEN QbAndWhere(x.qb.wheres, cursorBracket)
                                     ELSE QbWhere(x.qb.wheres, cursorBracket)]

(* applyRelationIdLoading                                                  *)
RelationsToLoad(c) == CollectRelationIds(c.joins, "", 1)

ApplyRelationIdLoading(x, c) ==
  LET relationsToLoad == RelationsToLoad(c)
  IN  [x EXCEPT !.pc = "order",
                !.qb.relationIds = IF Len(relationsToLoad) > 0
                                     THEN Append(x.qb.relationIds, relationsToLoad)
                                   ELSE x.qb.relationIds]

(* QueryApplier.applyOrderBy                                               *)
OrderByCall(entry) ==
  [field |-> QualifiedField(entry[1], entry[2].field), direction |-> entry[2].direction,
   nulls |-> IF entry[2].nullsFirst THEN "NULLS FIRST" ELSE "NULLS LAST"]

ApplyOrderBy(x) ==
  LET sorted == SortOrderByWithSequentialId(x.qs.orderBy)
  IN  [x EXCEPT !.pc = "select",
                !.qs.orderBy = sorted,
                !.qb.orderBys = [i \in DOMAIN sorted |-> OrderByCall(sorted[i])]]

(* QueryApplier.applySelects                                               *)
ApplySelects(x) ==
  [x EXCEPT !.pc = "done",
            !.qb.select = IF Len(x.qs.selects) > 0 THEN x.qs.selects ELSE x.qb.select]

(* The step a running call takes next.                                     *)
StepOf(x, c) ==
  CASE x.pc = "joins" /\ x.pendingJoins # <<>> -> VisitJoin(x)
    [] x.pc = "joins" /\ x.pendingJoins = <<>> -> ApplyCursors(x)
    [] x.pc = "relids" -> ApplyRelationIdLoading(x, c)
    [] x.pc = "order" -> ApplyOrderBy(x)
    [] x.pc = "select" -> ApplySelects(x)
    [] OTHER -> x

RECURSIVE RunToEnd(_, _)
RunToEnd(x, c) == IF x.pc \in {"done", "error"} THEN x ELSE RunToEnd(StepOf(x, c), c)

(* The QueryState a constructor leaves, and translate on a translator that *)
(* has just been constructed.                                              *)
InitialQueryState ==
  [selects |-> <<>>, orderBy |-> <<>>, hasWhere |-> FALSE, cursors |-> <<>>,
   cursorApplied |-> FALSE]

FreshTranslate(c) ==
  RunToEnd(EnterTranslate(c, ResetParamCounter, InitialQueryState), c)

-----------------------------------------------------------------------------
(* Bounds of the criteria the model translates.                            *)

MaxItems == 2   \* items of the root filter group of the generated group trees

MaxJoins == 2   \* joins at the root of the generated alias-collision criteria

MaxVal == 2     \* cursor values and row values range over NULL and 0..MaxVal

MaxCalls == 2   \* translate calls on one translator instance

MaxParamCounter == 2  \* visitFilter is called while the parameter counter is below this

SeqsUpTo(S, n) == UNION {[1..k -> S] : k \in 1..n}

Vals == {NullVal} \cup {Val(n) : n \in 0..MaxVal}

-----------------------------------------------------------------------------
(* Criteria constructors.  The root is the entity "post"; a join's         *)
(* parameters name the alias of the criteria it hangs under as parent.     *)

EmptyGroup == FilterGroup("AND", <<>>)

Join(joinType, relation_alias, relation_type, selectType, local_field, rootFilterGroup, joins, orders, cursor, select) ==
  [joinType |-> joinType, relation_alias |-> relation_alias,
   relation_type |-> relation_type, parent_alias |-> "", parent_identifier |-> "uuid",
   local_field |-> local_field, selectType |-> selectType, identifierField |-> "uuid",
   rootFilterGroup |-> rootFilterGroup,
   joins |-> [i \in DOMAIN joins |-> [joins[i] EXCEPT !.parent_alias = relation_alias]],
   orders |-> orders, cursor |-> cursor, select |-> select]

RootCriteria(rootFilterGroup, joins, orders, cursor, select, take, skip) ==
  [alias |-> "post", identifierField |-> "uuid", rootFilterGroup |-> rootFilterGroup,
   joins |-> [i \in DOMAIN joins |-> [joins[i] EXCEPT !.parent_alias = "post"]],
   orders |-> orders, cursor |-> cursor, select |-> select, take |-> take, skip |-> skip]

NoCriteria == RootCriteria(EmptyGroup, <<>>, <<>>, NoCursor, <<>>, 0, 0)

fTitle == Filter("title", "EQUALS", Scalar(Val(1)))

fMeta == Filter("metadata", "JSON_PATH_VALUE_EQUALS", <<Entry("a", Val(1)), Entry("b", Val(2))>>)

fTags == Filter("categories", "SET_NOT_CONTAINS", Scalar(Val(1)))

fDate == Filter("created_at", "BETWEEN", <<Entry("", Val(0)), Entry("", Val(2))>>)

fBody == Filter("body", "IS_NULL", Scalar(NullVal))

fUnsupported == Filter("title", "UNSUPPORTED_OPERATOR", Scalar(Val(1)))

-----------------------------------------------------------------------------
(* Filter-group trees: a root group of up to MaxItems items, each a filter *)
(* or a nested group (one or two levels deep, one or two items wide).      *)

GroupItems ==
  {fTitle, fMeta, fTags,
   FilterGroup("AND", <<fTitle, fMeta>>),
   FilterGroup("OR", <<fTitle, fTags>>),
   FilterGroup("AND", <<fDate>>),
   FilterGroup("OR", <<FilterGroup("AND", <<fTitle, fMeta>>), fTags>>),
   FilterGroup("AND", <<FilterGroup("OR", <<fMeta, fTags>>), fBody>>)}

GroupTrees ==
  {FilterGroup(lop, items) : lop \in {"AND", "OR"}, items \in SeqsUpTo(GroupItems, MaxItems)}

GroupCriteria ==
  {RootCriteria(g, <<>>, <<>>, NoCursor, <<>>, 0, 0) : g \in GroupTrees}

-----------------------------------------------------------------------------
(* Criteria with one join, over every combination the join applier looks   *)
(* at: kind of join, kind of relation, selection strategy, which side owns *)
(* the foreign key, and whether the join criteria has filters, child joins *)
(* or orders.                                                              *)

ChildJoin ==
  Join("inner", "comments", "one_to_many", "FULL_ENTITY", "uuid", EmptyGroup, <<>>, <<>>,
       NoCursor, <<>>)

JoinOrder == Order("username", "ASC", 7, FALSE)

OneJoinCriteria ==
  {RootCriteria(FilterGroup("AND", <<fTitle>>),
     <<Join(joinType, "publisher", relation_type, selectType, local_field,
            IF hasFilters THEN FilterGroup("AND", <<fTitle>>) ELSE EmptyGroup,
            IF hasJoins THEN <<ChildJoin>> ELSE <<>>,
            IF hasOrders THEN <<JoinOrder>> ELSE <<>>,
            NoCursor, <<>>)>>,
     <<>>, NoCursor, <<>>, 0, 0) :
     joinType \in {"inner", "left"},
     relation_type \in {"many_to_one", "one_to_many", "many_to_many"},
     selectType \in {"", "FULL_ENTITY", "ID_ONLY", "NO_SELECTION"},
     local_field \in {"user_uuid", "uuid"},
     hasFilters \in BOOLEAN, hasJoins \in BOOLEAN, hasOrders \in BOOLEAN}

-----------------------------------------------------------------------------
(* Criteria whose joins ask for aliases that collide: with each other,     *)
(* with an alias that already looks suffixed, and with the root alias.     *)

AliasLeaf(relation_alias) ==
  Join("inner", relation_alias, "many_to_one", "FULL_ENTITY", "user_uuid", EmptyGroup,
       <<>>, <<>>, NoCursor, <<>>)

AliasJoins ==
  {Join("left", relation_alias, "one_to_many", "FULL_ENTITY", "uuid", EmptyGroup, kids,
        <<>>, NoCursor, <<>>) :
     relation_alias \in {"publisher", "publisher_1", "post"},
     kids \in {<<>>, <<AliasLeaf("publisher")>>,
               <<AliasLeaf("publisher"), AliasLeaf("publisher")>>}}

AliasCriteria ==
  {RootCriteria(EmptyGroup, joins, <<>>, NoCursor, <<>>, 0, 0) :
     joins \in SeqsUpTo(AliasJoins, MaxJoins)}

-----------------------------------------------------------------------------
(* Criteria with cursors: one field, two fields in the root cursor, or one *)
(* field in the root and one in a joined criteria, in either sequence      *)
(* order; and the malformed ones.                                          *)

CursorDirections == {<<"ASC", "GREATER_THAN">>, <<"DESC", "LESS_THAN">>}

Part(field, operator, value) == [field |-> field, operator |-> operator, value |-> value]

CursorJoin(selectType, cursor) ==
  Join("inner", "profile", "one_to_one", selectType, "uuid", EmptyGroup, <<>>, <<>>,
       cursor, <<>>)

SingleCursorCriteria ==
  {RootCriteria(g, <<>>, <<>>,
     Cursor(<<Part("created_at", d[2], v1)>>, d[1], d[2], 1), <<>>, 10, 5) :
     g \in {EmptyGroup, FilterGroup("AND", <<fTitle>>)}, d \in CursorDirections, v1 \in Vals}

RootCompositeCriteria ==
  {RootCriteria(g, <<>>, <<>>,
     Cursor(<<Part("created_at", d[2], v1), Part("uuid", d[2], v2)>>, d[1], d[2], 1),
     <<>>, 10, 0) :
     g \in {EmptyGroup, FilterGroup("AND", <<fTitle>>)}, d \in CursorDirections,
     v1 \in Vals, v2 \in Vals}

JoinedCompositeCriteria ==
  {RootCriteria(EmptyGroup,
     <<CursorJoin(selectType, Cursor(<<Part("bio", d[2], vj)>>, d[1], d[2], sj))>>,
     <<>>, Cursor(<<Part("username", d[2], vr)>>, d[1], d[2], 2), <<>>, 0, 0) :
     selectType \in {"FULL_ENTITY", "NO_SELECTION"}, d \in CursorDirections,
     vr \in Vals, vj \in Vals, sj \in {1, 3}}

MalformedCursorCriteria ==
  {RootCriteria(FilterGroup("AND", <<fTitle>>),
     <<CursorJoin("FULL_ENTITY", Cursor(<<Part("bio", dj[2], Val(1))>>, dj[1], dj[2], 2))>>,
     <<>>, Cursor(parts, "ASC", "GREATER_THAN", 1), <<"title">>, 0, 0) :
     dj \in CursorDirections \cup {<<"ASC", "LESS_THAN">>},
     parts \in {<<Part("created_at", "GREATER_THAN", Val(1))>>,
                <<Part("created_at", "GREATER_THAN", Val(1)),
                  Part("uuid", "GREATER_THAN", Val(2))>>}}

CursorCriteria ==
  SingleCursorCriteria \cup RootCompositeCriteria \cup JoinedCompositeCriteria
    \cup MalformedCursorCriteria

-----------------------------------------------------------------------------
(* Criteria that combine root filters, ON filters at two levels, orders,   *)
(* selects and cursors; criteria that make translate throw; and identifier *)
(* loading below other joins.                                              *)

OnGroup == FilterGroup("AND", <<fDate, FilterGroup("OR", <<fTitle, fTags>>)>>)

IdLeaf(relation_alias, local_field, cursor) ==
  Join("left", relation_alias, "many_to_one", "ID_ONLY", local_field, EmptyGroup, <<>>,
       <<>>, cursor, <<>>)

MixedCriteria ==
  {RootCriteria(FilterGroup("OR", <<FilterGroup("AND", <<fTitle, fMeta>>), fBody>>),
     <<Join("inner", "publisher", "many_to_one", "FULL_ENTITY", "user_uuid", OnGroup,
            <<Join("left", "comments", "one_to_many", "NO_SELECTION", "uuid",
                   FilterGroup("AND", <<fMeta>>), <<>>, <<Order("body", "DESC", 2, TRUE)>>,
                   NoCursor, <<>>)>>,
            <<Order("username", "ASC", 4, FALSE)>>, NoCursor, <<"username">>)>>,
     <<Order("created_at", "ASC", 3, FALSE), Order("uuid", "ASC", 5, FALSE)>>,
     Cursor(<<Part("created_at", "GREATER_THAN", Val(1)),
              Part("uuid", "GREATER_THAN", Val(2))>>, "ASC", "GREATER_THAN", 6),
     <<"title">>, 10, 5),
   RootCriteria(FilterGroup("AND", <<fTitle, fUnsupported>>), <<AliasLeaf("publisher")>>,
     <<>>, NoCursor, <<>>, 0, 0),
   RootCriteria(FilterGroup("AND", <<fTitle>>),
     <<Join("inner", "publisher", "many_to_one", "FULL_ENTITY", "user_uuid",
            FilterGroup("OR", <<fDate, fUnsupported>>), <<>>, <<>>, NoCursor, <<>>)>>,
     <<>>, NoCursor, <<>>, 0, 0),
   RootCriteria(EmptyGroup,
     <<Join("outer", "publisher", "many_to_one", "FULL_ENTITY", "user_uuid", EmptyGroup,
            <<>>, <<>>, NoCursor, <<>>)>>,
     <<>>, NoCursor, <<>>, 0, 0),
   RootCriteria(FilterGroup("AND", <<fTitle>>),
     <<Join("left", "comments", "one_to_many", "FULL_ENTITY", "uuid", EmptyGroup,
            <<Join("outer", "publisher", "many_to_one", "ID_ONLY", "user_uuid",
                   EmptyGroup, <<>>, <<>>, NoCursor, <<>>)>>,
            <<>>, NoCursor, <<>>)>>,
     <<>>, NoCursor, <<>>, 0, 0),
   RootCriteria(EmptyGroup, <<IdLeaf("publisher", "user_uuid", NoCursor)>>, <<>>, NoCursor,
     <<"title", "user_uuid">>, 0, 3),
   RootCriteria(EmptyGroup,
     <<IdLeaf("publisher", "user_uuid",
              Cursor(<<Part("username", "GREATER_THAN", Val(1))>>, "ASC", "GREATER_THAN", 1))>>,
     <<>>, NoCursor, <<>>, 0, 0),
   RootCriteria(EmptyGroup,
     <<Join("inner", "comments", "one_to_many", "ID_ONLY", "uuid", EmptyGroup,
            <<IdLeaf("publisher", "user_uuid", NoCursor), IdLeaf("post", "uuid", NoCursor)>>,
            <<>>, NoCursor, <<>>),
       IdLeaf("publisher", "user_uuid", NoCursor)>>,
     <<>>, NoCursor, <<>>, 0, 0),
   RootCriteria(FilterGroup("AND", <<fTitle>>),
     <<Join("inner", "publisher", "many_to_one", "NO_SELECTION", "user_uuid",
            FilterGroup("AND", <<fTitle>>),
            <<AliasLeaf("profile")>>, <<Order("username", "DESC", 1, FALSE)>>,
            Cursor(<<Part("username", "LESS_THAN", Val(1))>>, "DESC", "LESS_THAN", 2),
            <<"username">>)>>,
     <<>>, NoCursor, <<>>, 5, 0),
   RootCriteria(EmptyGroup,
     <<CursorJoin("FULL_ENTITY",
                  Cursor(<<Part("bio", "GREATER_THAN", Val(1))>>, "ASC", "GREATER_THAN", 1))>>,
     <<>>, NoCursor, <<>>, 5, 3),
   RootCriteria(EmptyGroup,
     <<Join("inner", "publisher", "many_to_one", "FULL_ENTITY", "user_uuid", EmptyGroup,
            <<>>, <<Order("username", "DESC", 3, TRUE)>>, NoCursor, <<>>),
       Join("left", "publisher", "many_to_one", "NO_SELECTION", "user_uuid", EmptyGroup,
            <<>>, <<Order("username", "ASC", 1, FALSE)>>, NoCursor, <<>>)>>,
     <<Order("created_at", "ASC", 2, FALSE)>>, NoCursor, <<>>, 0, 0),
   RootCriteria(FilterGroup("AND", <<fTitle>>),
     <<Join("left", "comments", "one_to_many", "ID_ONLY", "uuid", EmptyGroup, <<>>, <<>>,
            NoCursor, <<>>)>>,
     <<Order("created_at", "ASC", 1, FALSE)>>,
     Cursor(<<Part("created_at", "GREATER_THAN", Val(1))>>, "ASC", "GREATER_THAN", 2),
     <<"title">>, 10, 0),
   RootCriteria(EmptyGroup,
     <<Join("left", "profile", "one_to_one", "FULL_ENTITY", "uuid", EmptyGroup, <<>>,
            <<Order("bio", "DESC", 2, FALSE)>>,
            Cursor(<<Part("bio", "LESS_THAN", Val(1))>>, "DESC", "LESS_THAN", 1),
            <<"username">>)>>,
     <<Order("created_at", "DESC", 4, FALSE)>>,
     Cursor(<<Part("created_at", "LESS_THAN", Val(0))>>, "DESC", "LESS_THAN", 3),
     <<"title">>, 3, 0)}

(* Pages of a keyset pagination: the criteria order by the fields of their *)
(* cursor, in the direction of the cursor; the cursor carries the sort     *)
(* values of the last row of the page before.                              *)
PagedSingleCriteria ==
  {RootCriteria(EmptyGroup, <<>>, <<Order("created_at", d[1], 1, nullsFirst)>>,
     Cursor(<<Part("created_at", d[2], v1)>>, d[1], d[2], 2), <<>>, 10, 0) :
     d \in CursorDirections, v1 \in Vals, nullsFirst \in BOOLEAN}

PagedCompositeCriteria ==
  {RootCriteria(EmptyGroup, <<>>,
     <<Order("created_at", d[1], 1, nullsFirst), Order("uuid", d[1], 2, FALSE)>>,
     Cursor(<<Part("created_at", d[2], v1), Part("uuid", d[2], v2)>>, d[1], d[2], 3),
     <<>>, 10, 0) :
     d \in CursorDirections, v1 \in Vals, v2 \in Vals, nullsFirst \in BOOLEAN}

PagedJoinedCriteria ==
  {RootCriteria(EmptyGroup,
     <<Join("left", "profile", "one_to_one", "FULL_ENTITY", "uuid", EmptyGroup, <<>>,
            <<Order("bio", d[1], 2, FALSE)>>,
            Cursor(<<Part("bio", d[2], vj)>>, d[1], d[2], 1), <<>>)>>,
     <<Order("uuid", d[1], 4, FALSE)>>,
     Cursor(<<Part("uuid", d[2], vr)>>, d[1], d[2], 3), <<>>, 3, 0) :
     d \in CursorDirections, vj \in Vals, vr \in Vals \ {NullVal}}

PagedCriteria == PagedSingleCriteria \cup PagedCompositeCriteria \cup PagedJoinedCriteria

(* Criteria whose root and whose join carry the same filter-group tree.    *)
SameGroupTrees ==
  {FilterGroup(lop, <<a, b>>) :
     lop \in {"AND", "OR"}, a \in GroupItems,
     b \in {fDate, FilterGroup("OR", <<fTitle, fTags>>)}}

SameGroupCriteria ==
  {RootCriteria(g,
     <<Join("inner", "publisher", "many_to_one", "FULL_ENTITY", "user_uuid", g, <<>>,
            <<>>, NoCursor, <<>>)>>,
     <<>>, NoCursor, <<>>, 0, 0) : g \in SameGroupTrees}

AllCriteria ==
  GroupCriteria \cup OneJoinCriteria \cup AliasCriteria \cup CursorCriteria
    \cup MixedCriteria \cup PagedCriteria
    \cup SameGroupCriteria

-----------------------------------------------------------------------------
(* Criteria translated one after another on the same translator instance.  *)

ReuseCriteria ==
  {NoCriteria,
   RootCriteria(FilterGroup("AND", <<fTitle>>), <<>>, <<>>, NoCursor, <<>>, 0, 0),
   RootCriteria(FilterGroup("OR", <<fTitle, fDate>>), <<AliasLeaf("publisher")>>,
     <<Order("created_at", "DESC", 1, TRUE)>>, NoCursor, <<"title">>, 10, 5),
   RootCriteria(EmptyGroup, <<>>, <<Order("uuid", "ASC", 2, FALSE)>>,
     Cursor(<<Part("created_at", "GREATER_THAN", Val(1)),
              Part("uuid", "GREATER_THAN", Val(2))>>, "ASC", "GREATER_THAN", 1),
     <<>>, 10, 0),
   RootCriteria(EmptyGroup, <<IdLeaf("publisher", "user_uuid", NoCursor)>>, <<>>,
     Cursor(<<Part("created_at", "LESS_THAN", NullVal)>>, "DESC", "LESS_THAN", 1),
     <<"body">>, 0, 0),
   RootCriteria(FilterGroup("AND", <<fTitle>>),
     <<CursorJoin("FULL_ENTITY",
                  Cursor(<<Part("bio", "LESS_THAN", Val(1))>>, "DESC", "LESS_THAN", 2))>>,
     <<Order("title", "ASC", 3, FALSE)>>,
     Cursor(<<Part("created_at", "GREATER_THAN", Val(1))>>, "ASC", "GREATER_THAN", 1),
     <<"title">>, 0, 0),
   RootCriteria(FilterGroup("AND", <<fMeta, fUnsupported>>), <<>>,
     <<Order("title", "ASC", 1, FALSE)>>, NoCursor, <<"body">>, 0, 0),
   RootCriteria(FilterGroup("AND", <<fTitle>>),
     <<AliasLeaf("publisher"),
       Join("outer", "comments", "one_to_many", "FULL_ENTITY", "uuid", EmptyGroup, <<>>,
            <<>>, NoCursor, <<>>)>>,
     <<>>, Cursor(<<Part("uuid", "GREATER_THAN", Val(0))>>, "ASC", "GREATER_THAN", 1),
     <<>>, 0, 0)}

-----------------------------------------------------------------------------
(* Filters handed to visitFilter: every registered operator of the model   *)
(* with values of the shape it takes, and operators that are not           *)
(* registered.                                                             *)

ScalarOperators ==
  {"EQUALS", "NOT_EQUALS", "GREATER_THAN", "GREATER_THAN_OR_EQUALS", "LESS_THAN",
   "LESS_THAN_OR_EQUALS", "LIKE", "NOT_LIKE", "CONTAINS", "NOT_CONTAINS", "STARTS_WITH",
   "ENDS_WITH", "ILIKE", "NOT_ILIKE", "MATCHES_REGEX"}

SetOperators == {"SET_CONTAINS", "SET_NOT_CONTAINS"}

ListOperators ==
  {"SET_CONTAINS_ANY", "SET_NOT_CONTAINS_ANY", "SET_CONTAINS_ALL", "SET_NOT_CONTAINS_ALL"}

JsonPathOperators == {"JSON_PATH_VALUE_EQUALS", "JSON_PATH_VALUE_NOT_EQUALS"}

ElementOperators == {"ARRAY_CONTAINS_ELEMENT", "ARRAY_NOT_CONTAINS_ELEMENT"}

ElementListOperators ==
  {"ARRAY_CONTAINS_ANY_ELEMENT", "ARRAY_NOT_CONTAINS_ANY_ELEMENT",
   "ARRAY_CONTAINS_ALL_ELEMENTS", "ARRAY_NOT_CONTAINS_ALL_ELEMENTS"}

UnregisteredOperators == {"UNSUPPORTED_OPERATOR", "SOUNDS_LIKE"}

Lists ==
  {<<>>, <<Entry("", Val(1))>>, <<Entry("", Val(1)), Entry("", Val(MaxVal))>>,
   <<Entry("", Val(1)), Entry("", Val(1))>>}

Objects ==
  {<<>>, <<Entry("a", Val(1))>>, <<Entry("a", Val(1)), Entry("b", Val(MaxVal))>>}

ElementLists == {<<>>, <<Val(1)>>, <<Val(1), Val(MaxVal)>>}

JsonContainsOperators == {"JSON_CONTAINS", "JSON_NOT_CONTAINS"}

JsonListOperators ==
  {"JSON_CONTAINS_ANY", "JSON_NOT_CONTAINS_ANY", "JSON_CONTAINS_ALL",
   "JSON_NOT_CONTAINS_ALL"}

ArrayEqualsStrictOperators == {"ARRAY_EQUALS_STRICT", "ARRAY_NOT_EQUALS_STRICT"}

(* Values for the document-shaped operators: scalars and null, arrays,     *)
(* objects with a scalar under their key, and objects with arrays under    *)
(* one or two keys.                                                        *)
Scalars == {Scalar(Val(1)), Scalar(NullVal)}

Documents ==
  {ArrayOf(<<Val(1), Val(MaxVal)>>), <<Entry("tags", Val(1))>>,
   <<Entry("tags", ListVal(<<>>))>>, <<Entry("tags", ListVal(<<Val(1)>>))>>,
   <<Entry("tags", ListVal(<<Val(1), Val(MaxVal)>>))>>,
   <<Entry("tags", ListVal(<<Val(1)>>)), Entry("a", ListVal(<<Val(MaxVal)>>))>>,
   <<Entry("a", Val(1)), Entry("tags", ListVal(<<Val(1)>>))>>}

VisitedFilters ==
  {Filter("title", op, Scalar(Val(v))) :
     op \in ScalarOperators \cup UnregisteredOperators, v \in {1, MaxVal}}
    \cup {Filter("categories", op, Scalar(Val(v))) : op \in SetOperators, v \in {1, MaxVal}}
    \cup {Filter("title", op, Scalar(NullVal)) : op \in {"IS_NULL", "IS_NOT_NULL"}}
    \cup {Filter("title", op, <<Entry("", Val(0)), Entry("", Val(v))>>) :
            op \in {"BETWEEN", "NOT_BETWEEN"}, v \in 0..MaxVal}
    \cup {Filter("title", op, value) : op \in {"IN", "NOT_IN"}, value \in Lists \ {<<>>}}
    \cup {Filter("categories", op, value) : op \in ListOperators, value \in Lists}
    \cup {Filter("metadata", op, value) :
            op \in JsonPathOperators, value \in Objects \cup {Scalar(Val(1))}}
    \cup {Filter("metadata", op, value) :
            op \in ElementOperators,
            value \in {Scalar(Val(1)), <<Entry("tags", Val(1))>>, <<Entry("tags", Val(MaxVal))>>}}
    \cup {Filter("metadata", op, <<Entry("tags", ListVal(elements))>>) :
            op \in ElementListOperators, elements \in ElementLists}
    \cup {Filter("metadata", op, value) :
            op \in JsonContainsOperators \cup JsonListOperators \cup ArrayEqualsStrictOperators,
            value \in Scalars \cup Documents}

VisitedAliases == {"post", "publisher_1"}

NoFragment ==
  [filter |-> Filter("", "", <<>>), alias |-> "", ok |-> FALSE, error |-> "",
   queryFragment |-> <<>>, parameters |-> <<>>]

-----------------------------------------------------------------------------
(* The translator: one instance, its parameter manager and query state,    *)
(* and the query builder handed to the running translate call.             *)

Init ==
  /\ pc = "idle"
  /\ criteria = NoCriteria
  /\ pendingJoins = <<>>
  /\ paramCounter = ResetParamCounter
  /\ qs = InitialQueryState
  /\ qb = NewQueryBuilder({})
  /\ joinLog = <<>>
  /\ thrown = ""
  /\ calls = 0
  /\ fragment = NoFragment
  /\ returned = <<>>

Current == Ctx(pc, pendingJoins, paramCounter, qs, qb, joinLog, thrown)

Becomes(x) ==
  /\ pc' = x.pc
  /\ pendingJoins' = x.pendingJoins
  /\ paramCounter' = x.paramCounter
  /\ qs' = x.qs
  /\ qb' = x.qb
  /\ joinLog' = x.joinLog
  /\ thrown' = x.thrown

(* translate(criteria, source) is called with a query builder of its own   *)
(* and runs up to the loop over the root's joins.                          *)
Translate(c) ==
  /\ pc = "idle"
  /\ criteria' = c
  /\ calls' = calls + 1
  /\ Becomes(EnterTranslate(c, paramCounter, qs))
  /\ UNCHANGED <<fragment, returned>>

(* One round of the loop over the joins: accept on the next join, depth    *)
(* first.                                                                  *)
AcceptJoin ==
  /\ pc = "joins"
  /\ pendingJoins # <<>>
  /\ Becomes(VisitJoin(Current))
  /\ UNCHANGED <<criteria, calls, fragment, returned>>

CallApplyCursors ==
  /\ pc = "joins"
  /\ pendingJoins = <<>>
  /\ Becomes(ApplyCursors(Current))
  /\ UNCHANGED <<criteria, calls, fragment, returned>>

CallApplyRelationIdLoading ==
  /\ pc = "relids"
  /\ Becomes(ApplyRelationIdLoading(Current, criteria))
  /\ UNCHANGED <<criteria, calls, fragment, returned>>

CallApplyOrderBy ==
  /\ pc = "order"
  /\ Becomes(ApplyOrderBy(Current))
  /\ UNCHANGED <<criteria, calls, fragment, returned>>

CallApplySelects ==
  /\ pc = "select"
  /\ Becomes(ApplySelects(Current))
  /\ UNCHANGED <<criteria, calls, fragment, returned>>

(* translate returns the builder, or its exception reaches the caller; the *)
(* translator instance stays as the call left it.                          *)
Return ==
  /\ pc \in {"done", "error"}
  /\ pc' = "idle"
  /\ returned' = Append(returned, [criteria |-> criteria, pc |-> pc, thrown |-> thrown,
                                   qb |-> qb])
  /\ UNCHANGED <<criteria, pendingJoins, paramCounter, qs, qb, joinLog, thrown, calls,
                 fragment>>

(* visitFilter(filter, currentAlias): the fragment builder renders one     *)
(* filter with the translator's parameter manager and hands the fragment   *)
(* back, or throws.                                                        *)
VisitFilter(filter, currentAlias) ==
  /\ pc = "idle"
  /\ LET b == Build(filter, currentAlias, paramCounter)
     IN  /\ paramCounter' = b.counter
         /\ fragment' = [filter |-> filter, alias |-> currentAlias, ok |-> b.ok,
                         error |-> b.error, queryFragment |-> b.queryFragment,
                         parameters |-> b.parameters]
  /\ UNCHANGED <<pc, criteria, pendingJoins, qs, qb, joinLog, thrown, calls, returned>>

TranslateOnce == \E c \in AllCriteria : calls = 0 /\ Translate(c)

TranslateAgain == \E c \in ReuseCriteria : calls < MaxCalls /\ Translate(c)

Next ==
  \/ TranslateOnce
  \/ AcceptJoin
  \/ CallApplyCursors
  \/ CallApplyRelationIdLoading
  \/ CallApplyOrderBy
  \/ CallApplySelects

Spec == Init /\ [][Next]_vars

NextReuse ==
  \/ TranslateAgain
  \/ AcceptJoin
  \/ CallApplyCursors
  \/ CallApplyRelationIdLoading
  \/ CallApplyOrderBy
  \/ CallApplySelects
  \/ Return

SpecReuse == Init /\ [][NextReuse]_vars

NextVisitFilter ==
  \E filter \in VisitedFilters, currentAlias \in VisitedAliases :
    paramCounter < MaxParamCounter /\ VisitFilter(filter, currentAlias)

SpecVisitFilter == Init /\ [][NextVisitFilter]_vars

-----------------------------------------------------------------------------
(* How PostgreSQL reads a condition.  The text is parsed with SQL's        *)
(* precedence (OR below AND below NOT below brackets) and evaluated in     *)
(* three-valued logic: "T", "F" or "U" (unknown).  A world gives the       *)
(* atoms their truth: either a row (column -> value) with the parameters   *)
(* bound on the query, or directly the set of atoms that are true.         *)

Node(op, kids, atom) == [op |-> op, kids |-> kids, atom |-> atom]

DepthAfter(toks) ==
  LET depth[i \in 0..Len(toks)] ==
        IF i = 0 THEN 0
        ELSE depth[i - 1] + (IF toks[i].t = "(" THEN 1
                             ELSE IF toks[i].t = ")" THEN -1 ELSE 0)
  IN  depth

TopLevel(toks, sep) ==
  LET depth == DepthAfter(toks)
  IN  {i \in DOMAIN toks : toks[i].t = sep /\ depth[i] = 0}

RECURSIVE Pieces(_, _, _)
Pieces(toks, cuts, from) ==
  LET ahead == {c \in cuts : c >= from}
  IN  IF ahead = {} THEN <<SubSeq(toks, from, Len(toks))>>
      ELSE LET c == CHOOSE c \in ahead : \A d \in ahead : c <= d
           IN  <<SubSeq(toks, from, c - 1)>> \o Pieces(toks, cuts, c + 1)

RECURSIVE Parse(_)
ParseEach(pieces, op) == Node(op, [k \in DOMAIN pieces |-> Parse(pieces[k])], Tok(""))

Parse(toks) ==
  IF TopLevel(toks, "OR") # {} THEN ParseEach(Pieces(toks, TopLevel(toks, "OR"), 1), "OR")
  ELSE IF TopLevel(toks, "AND") # {}
    THEN ParseEach(Pieces(toks, TopLevel(toks, "AND"), 1), "AND")
  ELSE IF toks[1].t = "NOT" THEN Node("NOT", <<Parse(Tail(toks))>>, Tok(""))
  ELSE IF toks[1].t = "(" THEN Parse(SubSeq(toks, 2, Len(toks) - 1))
  ELSE Node("ATOM", <<>>, toks[1])

AtomKey(a) == <<a.f, a.o>>

Bound(params, name) ==
  params[CHOOSE i \in DOMAIN params :
           /\ params[i].name = name
           /\ \A k \in DOMAIN params : params[k].name = name => k <= i].x

Compare(o, a, b) ==
  IF a.isNull \/ b.isNull THEN "U"
  ELSE IF (o = ">" /\ a.v > b.v) \/ (o = "<" /\ a.v < b.v) \/ (o = "=" /\ a.v = b.v)
    THEN "T"
  ELSE "F"

(* value = ANY(array): unknown when the array or the value is null.        *)
AnyOf(x, array) ==
  IF array.isNull \/ x.isNull THEN "U" ELSE IF x.v \in array.v THEN "T" ELSE "F"

(* document @> json, for a document that holds at the path of json the     *)
(* array document.v: unknown when the document is null, and true when the  *)
(* array holds every element json has there.                               *)
ContainsJson(document, json) ==
  IF document.isNull THEN "U"
  ELSE IF \A i \in DOMAIN json.current.elements :
            /\ ~json.current.elements[i].isNull
            /\ json.current.elements[i].v \in document.v
    THEN "T"
  ELSE "F"

AtomTruth(a, world) ==
  IF ~world.byRow THEN (IF AtomKey(a) \in world.atoms THEN "T" ELSE "F")
  ELSE IF a.f = "1" THEN (IF a.p = <<"1">> THEN "T" ELSE "F")
  ELSE IF a.o = "IS NULL" THEN (IF world.row[a.f].isNull THEN "T" ELSE "F")
  ELSE IF a.o = "IS NOT NULL" THEN (IF world.row[a.f].isNull THEN "F" ELSE "T")
  ELSE IF a.o = "CONTAINS" THEN AnyOf(Bound(world.params, a.p[1]), world.row[a.f])
  ELSE IF a.o = "@>" THEN ContainsJson(world.row[a.f], Bound(world.params, a.p[1]))
  ELSE Compare(a.o, world.row[a.f], Bound(world.params, a.p[1]))

RECURSIVE Truth(_, _)
Truth(node, world) ==
  LET kid == [k \in DOMAIN node.kids |-> Truth(node.kids[k], world)]
  IN  CASE node.op = "ATOM" -> AtomTruth(node.atom, world)
        [] node.op = "NOT" ->
             (IF kid[1] = "T" THEN "F" ELSE IF kid[1] = "F" THEN "T" ELSE "U")
        [] node.op = "AND" ->
             (IF \E k \in DOMAIN kid : kid[k] = "F" THEN "F"
              ELSE IF \A k \in DOMAIN kid : kid[k] = "T" THEN "T" ELSE "U")
        [] OTHER ->
             (IF \E k \in DOMAIN kid : kid[k] = "T" THEN "T"
              ELSE IF \A k \in DOMAIN kid : kid[k] = "F" THEN "F" ELSE "U")

AtomsOf(toks) == {AtomKey(toks[i]) : i \in {k \in DOMAIN toks : toks[k].t = "atom"}}

AtomWorld(atoms) == [byRow |-> FALSE, atoms |-> atoms, row |-> <<>>, params |-> <<>>]

RowWorld(row, params) == [byRow |-> TRUE, atoms |-> {}, row |-> row, params |-> params]

-----------------------------------------------------------------------------
(* What the claims speak of.                                               *)

(* The text of a condition with the parameter names left out.              *)
EraseParams(toks) == [i \in DOMAIN toks |-> [toks[i] EXCEPT !.p = <<>>]]

(* A filter-group tree written out: a filter as the fragment of its        *)
(* handler, a group as its items joined by its own operator, a nested      *)
(* group between brackets.                                                 *)
RECURSIVE ItemsText(_, _, _, _)
ItemsText(items, logicalOperator, alias, i) ==
  IF i > Len(items) THEN <<>>
  ELSE (IF i > 1 THEN <<Connective(logicalOperator)>> ELSE <<>>)
       \o (IF items[i].kind = "filter"
             THEN EraseParams(Build(items[i], alias, 0).queryFragment)
           ELSE <<LP>> \o ItemsText(items[i].items, items[i].logicalOperator, alias, 1)
                \o <<RP>>)
       \o ItemsText(items, logicalOperator, alias, i + 1)

(* Whether a filter-group tree holds in a world: an AND group when all of  *)
(* its items hold, an OR group when one does.                              *)
RECURSIVE Holds(_, _, _)
Holds(item, alias, world) ==
  IF item.kind = "filter"
    THEN Truth(Parse(Build(item, alias, 0).queryFragment), world) = "T"
  ELSE IF item.logicalOperator = "AND"
    THEN \A i \in DOMAIN item.items : Holds(item.items[i], alias, world)
  ELSE \E i \in DOMAIN item.items : Holds(item.items[i], alias, world)

SameMeaning(toks, group, alias) ==
  LET tree == Parse(toks)
  IN  \A atoms \in SUBSET AtomsOf(toks) :
        (Truth(tree, AtomWorld(atoms)) = "T") <=> Holds(group, alias, AtomWorld(atoms))

RootWhere == qb.wheres[1].condition

(* The join call that the i-th visited join emitted.                       *)
JoinCallOf(i) == qb.joins[Cardinality({k \in 1..i : ~joinLog[k].optimized})]

(* C1: the WHERE condition of a translated root filter group is the tree   *)
(* written out, every group (the root's too) between its own brackets and  *)
(* joined by its own operator, and PostgreSQL reads it with the AND/OR     *)
(* structure of the tree; the ON condition of a join is its filter group   *)
(* written out likewise, nested groups bracketed.                          *)
C1_GroupsKeepTheirStructure ==
  pc = "done" =>
    /\ Len(criteria.rootFilterGroup.items) > 0 =>
         /\ EraseParams(RootWhere)
              = <<LP>> \o ItemsText(criteria.rootFilterGroup.items,
                                    criteria.rootFilterGroup.logicalOperator,
                                    criteria.alias, 1) \o <<RP>>
         /\ SameMeaning(RootWhere, criteria.rootFilterGroup, criteria.alias)
    /\ \A i \in DOMAIN joinLog :
         LET group == joinLog[i].join.rootFilterGroup
         IN  (~joinLog[i].optimized /\ Len(group.items) > 0) =>
               /\ EraseParams(JoinCallOf(i).condition)
                    = ItemsText(group.items, group.logicalOperator,
                                joinLog[i].usedAlias, 1)
               /\ SameMeaning(JoinCallOf(i).condition, group, joinLog[i].usedAlias)

(* OR[AND[title, metadata], categories] has been translated: the AND group *)
(* stands between brackets of its own in front of the OR.                  *)
C1_Witness ==
  /\ pc = "done"
  /\ criteria.rootFilterGroup
       = FilterGroup("OR", <<FilterGroup("AND", <<fTitle, fMeta>>), fTags>>)
  /\ RootWhere[1] = LP /\ RootWhere[2] = LP /\ RootWhere[4] = Tok("AND")
  /\ RootWhere[8] = RP /\ RootWhere[9] = Tok("OR")

ParamNames(params) == [i \in DOMAIN params |-> params[i].name]

ParamValues(params) == [i \in DOMAIN params |-> params[i].x]

NoDuplicates(seq) == \A i, k \in DOMAIN seq : i # k => seq[i] # seq[k]

(* C2: within one translate call no parameter name is bound twice: the     *)
(* names bound for the root WHERE, for every join's ON clause and for the  *)
(* cursor condition, in the order they were bound on the query, are        *)
(* pairwise distinct.                                                      *)
C2_ParameterNamesAreDistinct == NoDuplicates(ParamNames(qb.params))

(* A call that bound parameters for its WHERE, for two ON clauses and for  *)
(* its cursor has finished.                                                *)
C2_Witness ==
  /\ pc = "done"
  /\ Len(criteria.rootFilterGroup.items) > 0
  /\ Len(qb.joins) = 2
  /\ \A i \in DOMAIN qb.joins : qb.joins[i].parameters # <<>>
  /\ qs.cursorApplied /\ Len(qb.wheres) = 2
  /\ Len(qb.params) = 11

(* C3: every translation names its parameters from param_0 on, so two      *)
(* translations of the same criteria on one translator instance bind the   *)
(* same sequence of parameter names.                                       *)
C3_IdenticalTranslationsNameAlike ==
  \A i, k \in DOMAIN returned :
    (returned[i].pc = "done" /\ returned[k].pc = "done") =>
      /\ returned[i].qb.params # <<>> => returned[i].qb.params[1].name = ParamName(0)
      /\ returned[i].criteria = returned[k].criteria
           => ParamNames(returned[i].qb.params) = ParamNames(returned[k].qb.params)

(* The calls made on a query builder that concern WHERE, with the          *)
(* parameter names left out, next to the values bound in their order.      *)
WhereTexts(builder) ==
  [i \in DOMAIN builder.wheres |->
     Clause(builder.wheres[i].type, EraseParams(builder.wheres[i].condition))]

(* C4: a translate call on a translator that has translated before (calls  *)
(* that threw included) ends as it would on a translator just constructed: *)
(* the same query state (SELECT fields, ORDER BY entries, cursor parts,    *)
(* has-where and cursor-applied flags), the same SELECT list and ORDER BY  *)
(* calls, the same WHERE and cursor condition over the same bound values.  *)
C4_NothingLeaksBetweenCalls ==
  pc \in {"done", "error"} =>
    LET fresh == FreshTranslate(criteria)
    IN  /\ pc = fresh.pc
        /\ qs = fresh.qs
        /\ qb.select = fresh.qb.select
        /\ qb.orderBys = fresh.qb.orderBys
        /\ WhereTexts(qb) = WhereTexts(fresh.qb)
        /\ ParamValues(qb.params) = ParamValues(fresh.qb.params)

(* A call with a cursor, orders and selects of its own has finished on a   *)
(* translator whose previous call threw after collecting two cursors.      *)
C4_Witness ==
  /\ Len(returned) = 1
  /\ returned[1].pc = "error"
  /\ returned[1].criteria.cursor.present
  /\ Len(returned[1].qb.joins) = 1
  /\ pc = "done"
  /\ criteria.cursor.present /\ qs.cursorApplied
  /\ criteria.orders # <<>>
  /\ criteria # returned[1].criteria

(* The join can be elided: the relation is not many-to-many, the local     *)
(* field is not the parent's identifier (the local side owns the foreign   *)
(* key), the selection strategy is ID_ONLY, and the join criteria has no   *)
(* filters, no joins and no orders.                                        *)
Elidable(j) ==
  /\ j.relation_type # "many_to_many"
  /\ j.local_field # j.parent_identifier
  /\ j.selectType = "ID_ONLY"
  /\ Len(j.rootFilterGroup.items) = 0
  /\ Len(j.joins) = 0
  /\ Len(j.orders) = 0

NotElidable(entry) == ~Elidable(entry.join)

(* The visited joins that are not elidable, in the order of their visit.   *)
JoinedEntries == SelectSeq(joinLog, NotElidable)

BoundBefore(i) == {criteria.alias} \cup {qb.joins[k].alias : k \in 1..(i - 1)}

SmallestFreeSuffix(bound, requested) ==
  CHOOSE n \in 1..(Cardinality(bound) + 1) :
    /\ requested \o "_" \o ToString(n) \notin bound
    /\ \A m \in 1..(n - 1) : requested \o "_" \o ToString(m) \in bound

(* C5: the aliases of the join calls of one translation are pairwise       *)
(* distinct and differ from the root alias; each is the requested relation *)
(* alias when no earlier call and not the root bound it, and otherwise the *)
(* requested alias followed by "_" and the smallest number from 1 on that  *)
(* gives an alias not yet bound.                                           *)
C5_JoinAliasesAreUnique ==
  /\ \A i \in DOMAIN qb.joins :
       /\ qb.joins[i].alias # criteria.alias
       /\ \A k \in DOMAIN qb.joins : i # k => qb.joins[i].alias # qb.joins[k].alias
  /\ Len(JoinedEntries) = Len(qb.joins)
  /\ \A i \in DOMAIN qb.joins :
       LET requested == JoinedEntries[i].join.relation_alias
           bound == BoundBefore(i)
       IN  qb.joins[i].alias
             = IF requested \notin bound THEN requested
               ELSE requested \o "_" \o ToString(SmallestFreeSuffix(bound, requested))

(* Four joins have been emitted: one asking for the root alias, and three  *)
(* asking for "publisher" at two depths of the tree.                       *)
C5_Witness ==
  /\ pc = "done"
  /\ Len(qb.joins) = 4
  /\ qb.joins[1].alias = "post_1"
  /\ qb.joins[2].alias = "publisher"
  /\ qb.joins[3].alias = "publisher_1"
  /\ qb.joins[4].alias = "publisher_2"

(* C6: of the inner and left joins the translation has visited, one that   *)
(* emitted no join call is elidable, and one that is not elidable emitted  *)
(* an inner or left join call as its join type says, on the relation of    *)
(* its parent alias.                                                       *)
C6_OnlyElidableJoinsAreSkipped ==
  /\ Len(qb.joins) = Cardinality({i \in DOMAIN joinLog : ~joinLog[i].optimized})
  /\ \A i \in DOMAIN joinLog :
       LET j == joinLog[i].join
       IN  /\ joinLog[i].optimized => Elidable(j)
           /\ ~Elidable(j) =>
                /\ ~joinLog[i].optimized
                /\ JoinCallOf(i).type = j.joinType
                /\ JoinCallOf(i).type \in {"inner", "left"}
                /\ JoinCallOf(i).target = j.parent_alias \o "." \o j.relation_alias
                /\ JoinCallOf(i).alias = joinLog[i].usedAlias

(* A translation has skipped the second and fourth of the joins it visited *)
(* and joined the others, among them an ID_ONLY join whose local field is  *)
(* the parent's identifier.                                                *)
C6_Witness ==
  /\ pc = "done"
  /\ Len(joinLog) = 4 /\ Len(qb.joins) = 2
  /\ joinLog[2].optimized /\ joinLog[4].optimized
  /\ ~joinLog[3].optimized /\ joinLog[3].join.selectType = "ID_ONLY"

(* The join the running call visits next, when it is an inner or left     *)
(* join.                                                                   *)
VisitsJoin == pc = "joins" /\ pendingJoins # <<>> /\ Head(pendingJoins).joinType # "outer"

ForeignKey(j) == j.parent_alias \o "." \o j.local_field

(* C7: visiting an elidable join (ID_ONLY on the owning side, no filters,  *)
(* no child joins, no orders) makes no call on the query builder and adds  *)
(* to the SELECT set exactly the local foreign-key column qualified by the *)
(* parent alias: appended when the set did not hold it, the set unchanged  *)
(* when it did.                                                            *)
C7_ElidedJoinSelectsOnlyTheForeignKey ==
  [][(VisitsJoin /\ Elidable(Head(pendingJoins))) =>
       /\ qb' = qb
       /\ qs'.selects = IF ForeignKey(Head(pendingJoins)) \in Range(qs.selects)
                          THEN qs.selects
                        ELSE Append(qs.selects, ForeignKey(Head(pendingJoins)))
       /\ pc' = "joins"]_vars

(* A translation whose only join was elidable has finished: no join call,  *)
(* and the foreign key of the root is the one selected field.              *)
C7_Witness ==
  /\ pc = "done"
  /\ Len(joinLog) = 1 /\ Elidable(joinLog[1].join)
  /\ qb.joins = <<>>
  /\ qb.select = <<"post.user_uuid">>

(* The relation paths of the ID_ONLY joins that are not elidable, root to  *)
(* leaf, in the order of the tree.                                         *)
RECURSIVE JoinedIdOnlyPaths(_, _, _)
JoinedIdOnlyPaths(joins, pathPrefix, i) ==
  IF i > Len(joins) THEN <<>>
  ELSE LET path == IF pathPrefix = "" THEN joins[i].relation_alias
                   ELSE pathPrefix \o "." \o joins[i].relation_alias
       IN  (IF joins[i].selectType = "ID_ONLY" /\ ~Elidable(joins[i])
              THEN <<path>> ELSE <<>>)
           \o JoinedIdOnlyPaths(joins[i].joins, path, 1)
           \o JoinedIdOnlyPaths(joins, pathPrefix, i + 1)

(* C8: a translation asks at most once for identifiers to be loaded, not   *)
(* before every join has been visited, and a finished translation has      *)
(* asked for exactly the paths of its ID_ONLY joins that were not elided:  *)
(* not at all when there is none.                                          *)
C8_IdentifiersLoadedForJoinedIdOnly ==
  /\ Len(qb.relationIds) <= 1
  /\ qb.relationIds # <<>> => (pendingJoins = <<>> /\ pc \notin {"joins", "relids"})
  /\ pc = "done" =>
       qb.relationIds = IF JoinedIdOnlyPaths(criteria.joins, "", 1) = <<>> THEN <<>>
                        ELSE <<JoinedIdOnlyPaths(criteria.joins, "", 1)>>

(* C9: visiting a NO_SELECTION join that builds its ON clause emits        *)
(* exactly one join call, inner or left as the join says and carrying the  *)
(* join's filter group as ON clause, and leaves the SELECT set as it was.  *)
C9_NoSelectionJoinSelectsNothing ==
  [][(VisitsJoin /\ Head(pendingJoins).selectType = "NO_SELECTION" /\ pc' # "error") =>
       LET j == Head(pendingJoins)
           call == qb'.joins[Len(qb'.joins)]
       IN  /\ Len(qb'.joins) = Len(qb.joins) + 1
           /\ SubSeq(qb'.joins, 1, Len(qb.joins)) = qb.joins
           /\ call.type = j.joinType /\ call.type \in {"inner", "left"}
           /\ EraseParams(call.condition)
                = ItemsText(j.rootFilterGroup.items, j.rootFilterGroup.logicalOperator,
                            call.alias, 1)
           /\ qs'.selects = qs.selects
           /\ qb'.select = qb.select]_vars

(* A translation whose only join was a NO_SELECTION join with an ON clause *)
(* has finished: one join call, nothing selected.                          *)
C9_Witness ==
  /\ pc = "done"
  /\ Len(joinLog) = 1 /\ joinLog[1].join.selectType = "NO_SELECTION"
  /\ Len(qb.joins) = 1 /\ qb.joins[1].condition # <<>>
  /\ qs.selects = <<>> /\ qb.select = <<>>

(* The parts of the cursor of the running call, merged.                    *)
CursorParts == CombinedFilters(qs.cursors, 1)

CursorCondition == qb.wheres[Len(qb.wheres)].condition

(* C10: the condition applied for a two-part cursor (f1, v1), (f2, v2),    *)
(* read by PostgreSQL over every row, is true exactly on the rows with     *)
(* f1 op v1, or f1 = v1 and f2 op v2, or f1 null, when v1 is not null, and *)
(* exactly on the rows with f1 null and f2 op v2 when v1 is null; op is >  *)
(* for an ascending cursor and < for a descending one, and a comparison    *)
(* with a null on either side is not true.                                 *)
C10_CompositeCursorMatches ==
  (pc = "done" /\ qs.cursorApplied /\ Len(CursorParts) = 2) =>
    LET f1 == CursorParts[1].field
        v1 == CursorParts[1].value
        f2 == CursorParts[2].field
        v2 == CursorParts[2].value
        ascending == qs.cursors[1][2].order = "ASC"
        Beyond(a, b) ==
          ~a.isNull /\ ~b.isNull /\ (IF ascending THEN a.v > b.v ELSE a.v < b.v)
        Same(a, b) == ~a.isNull /\ ~b.isNull /\ a.v = b.v
        tree == Parse(CursorCondition)
    IN  \A row \in [{f1, f2} -> Vals] :
          (Truth(tree, RowWorld(row, qb.params)) = "T")
            <=> IF ~v1.isNull
                  THEN \/ Beyond(row[f1], v1)
                       \/ Same(row[f1], v1) /\ Beyond(row[f2], v2)
                       \/ row[f1].isNull
                ELSE row[f1].isNull /\ Beyond(row[f2], v2)

(* A descending cursor made of a part of a joined entity and a part of the *)
(* root, its first value not null, has been applied as the WHERE.          *)
C10_Witness ==
  /\ pc = "done" /\ qs.cursorApplied
  /\ Len(qs.cursors) = 2 /\ Len(CursorParts) = 2
  /\ CursorParts[1].field = "profile.bio" /\ CursorParts[2].field = "post.username"
  /\ qs.cursors[1][2].order = "DESC"
  /\ ~CursorParts[1].value.isNull
  /\ Len(qb.wheres) = 1 /\ Len(CursorCondition) = 17

(* The step of the running call that applies the cursor.                   *)
AppliesCursor == pc = "joins" /\ pendingJoins = <<>> /\ ~qs.cursorApplied

(* C11: applying a cursor of one part whose value is null binds no         *)
(* parameter and names none; for a less-than (descending) cursor the       *)
(* condition is true on no row, for a greater-than (ascending) cursor it   *)
(* is the condition "field IS NOT NULL" on the cursor's field.             *)
C11_NullSingleCursorDegenerates ==
  [][(AppliesCursor /\ Len(CursorParts) = 1 /\ CursorParts[1].value.isNull) =>
       LET f == CursorParts[1].field
           cond == qb'.wheres[Len(qb'.wheres)].condition
       IN  /\ pc' = "relids" /\ qs'.cursorApplied
           /\ qb'.params = qb.params
           /\ paramCounter' = paramCounter
           /\ Len(qb'.wheres) = Len(qb.wheres) + 1
           /\ \A i \in DOMAIN cond : cond[i].f # "1" => cond[i].p = <<>>
           /\ CursorParts[1].operator = "LESS_THAN" =>
                \A row \in [{f} -> Vals] :
                  Truth(Parse(cond), RowWorld(row, qb'.params)) = "F"
           /\ CursorParts[1].operator = "GREATER_THAN" =>
                Parse(cond) = Node("ATOM", <<>>, Atom(f, "IS NOT NULL", <<>>))]_vars

(* A descending cursor on created_at with a null value has been applied    *)
(* next to the WHERE of the root filter: one parameter, the filter's.      *)
C11_Witness ==
  /\ pc = "done" /\ qs.cursorApplied
  /\ Len(CursorParts) = 1 /\ CursorParts[1].value.isNull
  /\ CursorParts[1].operator = "LESS_THAN"
  /\ Len(qb.wheres) = 2 /\ Len(qb.params) = 1
  /\ Parse(CursorCondition) = Node("ATOM", <<>>, Atom("1", "=", <<"0">>))

(* The cursor parts a call has collected disagree on direction or on       *)
(* operator, or have more than two fields together.                        *)
Malformed(collected) ==
  \/ \E i, k \in DOMAIN collected :
       \/ collected[i][2].order # collected[k][2].order
       \/ collected[i][2].operator # collected[k][2].operator
  \/ Len(CombinedFilters(collected, 1)) > 2

CursorValidationErrors ==
  {"All parts of a composite cursor must have the same order direction.",
   "All parts of a composite cursor must have the same operator.",
   "A combined cursor cannot have more than two fields in total."}

(* The running call failed the validation of its cursor.                   *)
CursorValidationFailed == pc = "error" /\ thrown \in CursorValidationErrors

(* A call gets past the cursor step only with a well-formed cursor, and    *)
(* fails its validation only with a malformed one.                         *)
MalformedCursorIsRejected ==
  /\ pc \in {"relids", "order", "select", "done"} => ~Malformed(qs.cursors)
  /\ CursorValidationFailed => Malformed(qs.cursors)

(* C12: a translation whose collected cursor parts disagree on direction   *)
(* or operator, or have more than two fields together, fails with a        *)
(* validation error, and at that failure no condition fragment has been    *)
(* built (no parameter name drawn) and none has been applied to the query  *)
(* builder: no WHERE, no join call, no bound parameter.                    *)
C12_MalformedCursorFailsBeforeAnyFragment ==
  /\ MalformedCursorIsRejected
  /\ (calls = 1 /\ CursorValidationFailed) =>
       /\ paramCounter = ResetParamCounter
       /\ qb.wheres = <<>>
       /\ qb.joins = <<>>
       /\ qb.params = <<>>

(* The WHERE of a query builder as PostgreSQL receives it.                 *)
WhereText(builder) == WhereClausesExpression(builder.wheres, 1)

(* The columns a condition speaks of.                                      *)
FieldsOf(toks) == {toks[i].f : i \in {k \in DOMAIN toks : toks[k].t = "atom"}} \ {"1"}

(* C13: the step that applies a cursor, when the root filter group gave a  *)
(* WHERE, leaves that WHERE in place and adds the cursor condition behind  *)
(* an AND, and otherwise makes the cursor condition the WHERE; the cursor  *)
(* condition stands between brackets and speaks of the cursor's fields     *)
(* only.  No step removes or changes the first WHERE clause, and once the  *)
(* cursor has been applied the WHERE does not change any more.             *)
C13_CursorIsAndedOntoTheWhere ==
  [][/\ (AppliesCursor /\ CursorParts # <<>> /\ pc' # "error") =>
          LET cond == qb'.wheres[Len(qb'.wheres)].condition
          IN  /\ qs'.cursorApplied
              /\ cond[1] = LP /\ cond[Len(cond)] = RP
              /\ FieldsOf(cond) \subseteq {CursorParts[i].field : i \in DOMAIN CursorParts}
              /\ IF Len(criteria.rootFilterGroup.items) > 0
                   THEN /\ Len(qb.wheres) = 1
                        /\ qb'.wheres = Append(qb.wheres, Clause("and", cond))
                        /\ WhereText(qb') = WhereText(qb) \o <<Tok("AND")>> \o cond
                   ELSE /\ qb.wheres = <<>>
                        /\ WhereText(qb') = cond
     /\ (pc # "idle" /\ qb.wheres # <<>>) =>
          /\ qb'.wheres # <<>>
          /\ qb'.wheres[1] = qb.wheres[1]
     /\ (pc # "idle" /\ qs.cursorApplied) => qb'.wheres = qb.wheres]_vars

(* A translation with a root filter and a one-part cursor of a value that  *)
(* is not null has finished: the filter's WHERE, then AND, then the cursor *)
(* condition.                                                              *)
C13_Witness ==
  /\ pc = "done" /\ qs.cursorApplied
  /\ Len(criteria.rootFilterGroup.items) > 0
  /\ Len(CursorParts) = 1 /\ ~CursorParts[1].value.isNull
  /\ Len(qb.wheres) = 2 /\ qb.wheres[2].type = "and"
  /\ qb.wheres[1].condition = <<LP, Atom("post.title", "=", <<"param_0">>), RP>>
  /\ Len(qb.params) = 2

(* The running call has a cursor: the root criteria carries one, or one    *)
(* has been collected from a joined criteria.                              *)
CursorPresent == pc # "idle" /\ (criteria.cursor.present \/ qs.cursors # <<>>)

(* The root's own cursor keeps skip from being applied.                    *)
RootCursorSuppressesSkip == (pc # "idle" /\ criteria.cursor.present) => qb.skip = 0

(* C14: in a translation that has a cursor, skip is never applied to the   *)
(* query builder, whatever the root's skip value.                          *)
C14_CursorSuppressesSkip == CursorPresent => qb.skip = 0

(* The orders of the criteria the running call has visited, each with the  *)
(* alias its criteria was given: the root's, then those of every join in   *)
(* the order of the visits.                                                *)
RECURSIVE JoinedOrders(_)
JoinedOrders(i) ==
  IF i > Len(joinLog) THEN <<>>
  ELSE [k \in DOMAIN joinLog[i].join.orders |->
          <<joinLog[i].usedAlias, joinLog[i].join.orders[k]>>]
       \o JoinedOrders(i + 1)

VisitedOrders ==
  [k \in DOMAIN criteria.orders |-> <<criteria.alias, criteria.orders[k]>>]
    \o JoinedOrders(1)

(* C15: a finished translation has made one ORDER BY call per order of the *)
(* root and of the joined criteria; the order with the n-th smallest       *)
(* sequence_id is the n-th call, whatever the place of its criteria in the *)
(* tree, and names its field qualified by the alias its criteria was       *)
(* resolved to.                                                            *)
C15_OrderByFollowsSequenceId ==
  pc = "done" =>
    LET entries == VisitedOrders
        Rank(k) == 1 + Cardinality({m \in DOMAIN entries :
                                      entries[m][2].sequenceId < entries[k][2].sequenceId})
    IN  /\ Len(qb.orderBys) = Len(entries)
        /\ \A k \in DOMAIN entries :
             /\ qb.orderBys[Rank(k)].field = entries[k][1] \o "." \o entries[k][2].field
             /\ qb.orderBys[Rank(k)].direction = entries[k][2].direction

(* The orders of the root and of two joins that both asked for the alias   *)
(* "publisher" have been applied: the second join's first, then the        *)
(* root's, then the first join's.                                          *)
C15_Witness ==
  /\ pc = "done"
  /\ Len(qb.orderBys) = 3
  /\ qb.orderBys[1].field = "publisher_1.username"
  /\ qb.orderBys[2].field = "post.created_at"
  /\ qb.orderBys[3].field = "publisher.username"

(* The running call has begun its finalization: the step that applies the  *)
(* cursor has run.                                                         *)
FinalizationBegun == pc \in {"relids", "order", "select", "done"}

(* Finalization runs cursor, then ORDER BY, then SELECT, after every join  *)
(* has been visited, and makes no join call and no WHERE call.             *)
FinalizationComesLastInOrder ==
  [][/\ FinalizationBegun =>
          /\ pendingJoins = <<>>
          /\ qs.cursorApplied
          /\ pc' # "idle" => (qb'.joins = qb.joins /\ qb'.wheres = qb.wheres)
     /\ (qb'.orderBys # qb.orderBys /\ pc # "idle") => (pc = "order" /\ qb.select = <<>>)
     /\ (qb'.select # qb.select /\ pc # "idle") => (pc = "select" /\ pc' = "done")]_vars

(* C16: finalization comes last and runs cursor condition, then ORDER BY,  *)
(* then SELECT list; once it has begun, the query builder receives no      *)
(* WHERE from filters, no join call and no request to load identifiers.    *)
C16_FinalizationIsTheLastStep ==
  [][/\ FinalizationBegun =>
          /\ pendingJoins = <<>>
          /\ qs.cursorApplied
          /\ pc' # "idle" =>
               /\ qb'.joins = qb.joins
               /\ qb'.wheres = qb.wheres
               /\ qb'.relationIds = qb.relationIds
     /\ (qb'.orderBys # qb.orderBys /\ pc # "idle") => (pc = "order" /\ qb.select = <<>>)
     /\ (qb'.select # qb.select /\ pc # "idle") => (pc = "select" /\ pc' = "done")]_vars

(* The request to load identifiers reaches a query builder that already    *)
(* holds the cursor condition of the call.                                 *)
IdentifiersRequestedAfterCursor ==
  /\ pc = "order" /\ qb.relationIds # <<>>
  /\ Len(qb.wheres) = 2 /\ CursorParts # <<>>

(* The values JSON_CONTAINS_ANY searches for, one per element of every     *)
(* array its object has under a key; for JSON_CONTAINS_ALL the arrays that *)
(* are not empty, one each.                                                *)
SearchedValues(filter) ==
  LET value == filter.value
      isAllOperator == filter.operator \in {"JSON_CONTAINS_ALL", "JSON_NOT_CONTAINS_ALL"}
      n[i \in 0..Len(value)] ==
        IF i = 0 THEN 0
        ELSE n[i - 1]
               + (IF ~IsListVal(value[i].x) \/ value[i].x.elements = <<>> THEN 0
                  ELSE IF isAllOperator THEN 1 ELSE Len(value[i].x.elements))
  IN  n[Len(value)]

(* The literal values the operator of a filter takes: none for a null      *)
(* test, two for a range, one per element of the list of a set operator,   *)
(* one per path of a JSON path object (none when the value is no object),  *)
(* one per element of the list of ARRAY_CONTAINS_ANY_ELEMENT, the one      *)
(* list of ARRAY_CONTAINS_ALL_ELEMENTS unless it is empty, the one list of *)
(* IN, the one document of JSON_CONTAINS and of ARRAY_EQUALS_STRICT when   *)
(* the value has the shape for it, the searched values of the JSON list    *)
(* operators, and one for every other comparison.                          *)
RequiredValues(filter) ==
  CASE filter.operator \in {"IS_NULL", "IS_NOT_NULL"} -> 0
    [] filter.operator \in {"BETWEEN", "NOT_BETWEEN"} -> 2
    [] filter.operator \in ListOperators -> Len(filter.value)
    [] filter.operator \in JsonPathOperators ->
         (IF \A i \in DOMAIN filter.value : filter.value[i].k # "" THEN Len(filter.value)
          ELSE 0)
    [] filter.operator \in {"ARRAY_CONTAINS_ANY_ELEMENT", "ARRAY_NOT_CONTAINS_ANY_ELEMENT"} ->
         Len(filter.value[1].x.elements)
    [] filter.operator
         \in {"ARRAY_CONTAINS_ALL_ELEMENTS", "ARRAY_NOT_CONTAINS_ALL_ELEMENTS"} ->
         (IF Len(filter.value[1].x.elements) = 0 THEN 0 ELSE 1)
    [] filter.operator \in JsonContainsOperators -> (IF IsObject(filter.value) THEN 1 ELSE 0)
    [] filter.operator \in JsonListOperators ->
         (IF IsObject(filter.value) THEN SearchedValues(filter) ELSE 0)
    [] filter.operator \in ArrayEqualsStrictOperators ->
         (IF IsArray(filter.value)
               \/ (IsObject(filter.value) /\ filter.value # <<>>
                     /\ IsListVal(filter.value[1].x))
            THEN 1 ELSE 0)
    [] OTHER -> 1

(* The parameter names a condition mentions.                               *)
MentionedIn(toks) ==
  UNION {Range(toks[i].p) : i \in {k \in DOMAIN toks : toks[k].t = "atom" /\ toks[k].f # "1"}}

ArrayVal(elements) == [isNull |-> FALSE, v |-> elements]

Arrays == {NullVal} \cup {ArrayVal(elements) : elements \in SUBSET (0..MaxVal)}

(* C18: the fragment rendered for SET_NOT_CONTAINS, read by PostgreSQL, is *)
(* true on every row whose array column is NULL; on a row whose array is   *)
(* not null it is true exactly when the value is not among its elements.   *)
C18_SetNotContainsMatchesNullArrays ==
  (fragment.ok /\ fragment.filter.operator = "SET_NOT_CONTAINS") =>
    LET column == fragment.alias \o "." \o fragment.filter.field
        x == fragment.filter.value[1].x
        tree == Parse(fragment.queryFragment)
    IN  \A array \in Arrays :
          LET truth == Truth(tree, RowWorld([f \in {column} |-> array], fragment.parameters))
          IN  /\ array.isNull => truth = "T"
              /\ ~array.isNull => (truth = "T" <=> x.v \notin array.v)

(* SET_NOT_CONTAINS on categories has been rendered for the alias "post".  *)
C18_Witness ==
  /\ fragment.ok
  /\ fragment.filter.operator = "SET_NOT_CONTAINS"
  /\ fragment.alias = "post" /\ fragment.filter.field = "categories"
  /\ Len(fragment.queryFragment) = 8
  /\ Len(fragment.parameters) = 1

(* The filters of a group, nested groups included, in the order they are   *)
(* rendered.                                                               *)
RECURSIVE FiltersOf(_, _)
FiltersOf(items, i) ==
  IF i > Len(items) THEN <<>>
  ELSE (IF items[i].kind = "filter" THEN <<items[i]>> ELSE FiltersOf(items[i].items, 1))
       \o FiltersOf(items, i + 1)

Unregistered(filter) == filter.operator \notin operatorHandlers

(* A translation whose root filter group holds a filter of an operator     *)
(* without a handler never finishes: it throws the error that names the    *)
(* first such operator, with no WHERE applied; and so does a join whose    *)
(* filter group holds one, with no join call made for it.                  *)
UnregisteredOperatorStopsTranslate ==
  LET root == SelectSeq(FiltersOf(criteria.rootFilterGroup.items, 1), Unregistered)
  IN  /\ (pc # "idle" /\ root # <<>>) =>
           /\ pc = "error"
           /\ thrown = "Unsupported filter operator: " \o root[1].operator
           /\ qb.wheres = <<>> /\ qb.joins = <<>>
      /\ \A i \in DOMAIN joinLog :
           SelectSeq(FiltersOf(joinLog[i].join.rootFilterGroup.items, 1), Unregistered) = <<>>
      /\ (pc = "error" /\ root = <<>> /\ pendingJoins # <<>>
            /\ Head(pendingJoins).joinType # "outer") =>
           LET on == SelectSeq(FiltersOf(Head(pendingJoins).rootFilterGroup.items, 1),
                               Unregistered)
           IN  on # <<>> /\ thrown = "Unsupported filter operator: " \o on[1].operator

(* C19: visitFilter on a filter whose operator has no registered handler   *)
(* throws the error "Unsupported filter operator: " followed by the        *)
(* operator; it returns no fragment, binds no parameter and draws no       *)
(* parameter name.  A filter of a registered operator is rendered.         *)
C19_UnregisteredOperatorIsAnError ==
  fragment # NoFragment =>
    IF fragment.filter.operator \in UnregisteredOperators
      THEN /\ ~fragment.ok
           /\ fragment.error = "Unsupported filter operator: " \o fragment.filter.operator
           /\ fragment.queryFragment = <<>>
           /\ fragment.parameters = <<>>
    ELSE fragment.ok /\ fragment.error = "" /\ fragment.queryFragment # <<>>

(* visitFilter has thrown on the operator SOUNDS_LIKE after it had         *)
(* rendered a filter that took param_0.                                    *)
C19_Witness ==
  /\ ~fragment.ok
  /\ fragment.filter.operator = "SOUNDS_LIKE"
  /\ fragment.error = "Unsupported filter operator: SOUNDS_LIKE"
  /\ paramCounter = 1

RECURSIVE AnyOuterJoin(_, _)
AnyOuterJoin(joins, i) ==
  IF i > Len(joins) THEN FALSE
  ELSE \/ joins[i].joinType = "outer"
       \/ AnyOuterJoin(joins[i].joins, 1)
       \/ AnyOuterJoin(joins, i + 1)

OuterJoinError == "OuterJoin (FULL OUTER JOIN) is not generically implemented for TypeOrmPostgresTranslator."

VisitsOuterJoin == pc = "joins" /\ pendingJoins # <<>> /\ Head(pendingJoins).joinType = "outer"

(* A translation of criteria with an outer join at any depth never gets    *)
(* past its joins; no outer join is ever applied or elided, and every join *)
(* call the query builder receives is an inner or a left join.             *)
OuterJoinNeverApplied ==
  /\ (pc # "idle" /\ AnyOuterJoin(criteria.joins, 1)) => pc \in {"joins", "error"}
  /\ \A i \in DOMAIN joinLog : joinLog[i].join.joinType # "outer"
  /\ \A i \in DOMAIN qb.joins : qb.joins[i].type \in {"inner", "left"}
  /\ (pc # "idle" /\ thrown = OuterJoinError) =>
       pc = "error" /\ pendingJoins # <<>> /\ Head(pendingJoins).joinType = "outer"

(* The visit of an outer join throws the OuterJoin error and touches       *)
(* neither the query builder nor the query state.                          *)
OuterJoinVisitThrows ==
  VisitsOuterJoin =>
    /\ pc' = "error"
    /\ thrown' = OuterJoinError
    /\ UNCHANGED <<qb, qs, joinLog, pendingJoins, paramCounter>>

(* C20: criteria with a full outer join at any depth of the join tree make *)
(* translate fail: the translation never gets past its joins, the visit of *)
(* the outer join throws the OuterJoin error without a call on the query   *)
(* builder, and no join call of the query is made for an outer join, be it *)
(* as an inner or a left join.                                             *)
C20_OuterJoinFailsTranslate == []OuterJoinNeverApplied /\ [][OuterJoinVisitThrows]_vars

(* translate has thrown on an outer join nested under a join that was      *)
(* applied before it.                                                      *)
C20_Witness ==
  /\ pc = "error"
  /\ thrown = OuterJoinError
  /\ Len(qb.joins) = 1
  /\ Head(pendingJoins).joinType = "outer"
  /\ Head(pendingJoins).parent_alias = joinLog[1].usedAlias

(* Where ORDER BY puts a value a relative to a value b under one of its    *)
(* entries: before it, or tied with it.                                    *)
SortsBefore(a, b, order) ==
  IF a.isNull /\ b.isNull THEN FALSE
  ELSE IF a.isNull THEN order.nulls = "NULLS FIRST"
  ELSE IF b.isNull THEN order.nulls = "NULLS LAST"
  ELSE IF order.direction = "ASC" THEN a.v < b.v
  ELSE a.v > b.v

Tied(a, b) == (a.isNull /\ b.isNull) \/ (~a.isNull /\ ~b.isNull /\ a.v = b.v)

(* A row comes strictly after the row r in the ORDER BY of the query.      *)
ComesAfter(row, r, orderBys) ==
  \E k \in DOMAIN orderBys :
    /\ \A i \in 1..(k - 1) : Tied(r[orderBys[i].field], row[orderBys[i].field])
    /\ SortsBefore(r[orderBys[k].field], row[orderBys[k].field], orderBys[k])

(* The translation pages by its cursor: its ORDER BY is over the fields of *)
(* the cursor, in their order and in the direction of the cursor.          *)
PagesByCursor ==
  /\ pc = "done" /\ qs.cursorApplied
  /\ Len(CursorParts) > 0
  /\ Len(qb.orderBys) = Len(CursorParts)
  /\ \A i \in DOMAIN CursorParts :
       /\ qb.orderBys[i].field = CursorParts[i].field
       /\ qb.orderBys[i].direction = qs.cursors[1][2].order

(* The last-seen row: the row of the sort values the cursor carries.       *)
LastSeen == [f \in {CursorParts[i].field : i \in DOMAIN CursorParts} |->
               CursorParts[CHOOSE i \in DOMAIN CursorParts : CursorParts[i].field = f].value]

(* The cursor condition is true exactly on the rows of the set that come   *)
(* strictly after the last-seen row in the ORDER BY of the query.          *)
SelectsTheRowsAfter(rows) ==
  LET tree == Parse(CursorCondition)
  IN  \A row \in rows :
        (Truth(tree, RowWorld(row, qb.params)) = "T")
          <=> ComesAfter(row, LastSeen, qb.orderBys)

(* C21: in a translation that pages by its cursor, the cursor condition,   *)
(* read by PostgreSQL over every row, is true exactly on the rows that     *)
(* come strictly after the last-seen row in the ORDER BY the translation   *)
(* applies, NULLS FIRST or NULLS LAST as it applies it, also when a sort   *)
(* value of the last-seen row or of the row is NULL.                       *)
C21_CursorSelectsTheRowsAfter ==
  PagesByCursor => SelectsTheRowsAfter([DOMAIN LastSeen -> Vals])

(* Where no sort value is NULL, in the last-seen row or in the rows, the   *)
(* cursor condition is true exactly on the rows that come after.           *)
CursorSelectsTheRowsAfterWithoutNulls ==
  (PagesByCursor /\ \A f \in DOMAIN LastSeen : ~LastSeen[f].isNull) =>
    SelectsTheRowsAfter([DOMAIN LastSeen -> Vals \ {NullVal}])

(* A two-field cursor whose first field is ordered NULLS LAST and whose    *)
(* tie-breaker is never NULL is exact, whether the first sort value is     *)
(* NULL or not.                                                            *)
CompositeCursorExactUnderNullsLast ==
  (PagesByCursor /\ Len(CursorParts) = 2 /\ qb.orderBys[1].nulls = "NULLS LAST"
     /\ ~CursorParts[2].value.isNull) =>
    SelectsTheRowsAfter({row \in [DOMAIN LastSeen -> Vals] :
                           ~row[CursorParts[2].field].isNull})

(* A one-field ascending cursor ordered NULLS LAST has been applied with a *)
(* sort value that is not NULL: the rows whose field is NULL come after    *)
(* the last-seen row and the condition is not true on them.                *)
NullRowsAreSkipped ==
  /\ PagesByCursor /\ Len(CursorParts) = 1
  /\ qb.orderBys[1].direction = "ASC" /\ qb.orderBys[1].nulls = "NULLS LAST"
  /\ ~CursorParts[1].value.isNull
  /\ LET row == [f \in DOMAIN LastSeen |-> NullVal]
     IN  /\ ComesAfter(row, LastSeen, qb.orderBys)
         /\ Truth(Parse(CursorCondition), RowWorld(row, qb.params)) # "T"

(* A one-field ascending cursor ordered NULLS LAST has been applied with a *)
(* NULL sort value: no row comes after the last-seen row and the condition *)
(* is true on every row whose field is not NULL.                           *)
EarlierRowsAreRepeated ==
  /\ PagesByCursor /\ Len(CursorParts) = 1
  /\ qb.orderBys[1].direction = "ASC" /\ qb.orderBys[1].nulls = "NULLS LAST"
  /\ CursorParts[1].value.isNull
  /\ LET row == [f \in DOMAIN LastSeen |-> Val(0)]
     IN  /\ ~ComesAfter(row, LastSeen, qb.orderBys)
         /\ Truth(Parse(CursorCondition), RowWorld(row, qb.params)) = "T"

(* For the joins of a join tree in the order translate visits them (a join *)
(* before its child joins, these before its next sibling): the position of *)
(* the parent join of each, 0 for a join of the root.                      *)
RECURSIVE ParentPositions(_, _, _)
ParentPositionsAfter(joins, parent, base, below) ==
  <<parent>> \o below \o ParentPositions(Tail(joins), parent, base + 1 + Len(below))

ParentPositions(joins, parent, base) ==
  IF joins = <<>> THEN <<>>
  ELSE ParentPositionsAfter(joins, parent, base,
                            ParentPositions(Head(joins).joins, base + 1, base + 1))

(* The alias the parent of the i-th visited join was given.                *)
ResolvedParentAlias(i) ==
  LET parent == ParentPositions(criteria.joins, 0, 0)[i]
  IN  IF parent = 0 THEN criteria.alias ELSE joinLog[parent].usedAlias

(* C22: every join the translation has visited hangs under the alias its   *)
(* parent was given, which is the renamed alias when collision resolution  *)
(* renamed the parent: the target of its join call is that alias followed  *)
(* by the relation, and the parent-identifier field a FULL_ENTITY join     *)
(* adds to SELECT is qualified by that alias.                              *)
C22_ChildrenHangUnderTheResolvedAlias ==
  pc # "idle" =>
    \A i \in DOMAIN joinLog :
      LET j == joinLog[i].join
      IN  /\ j.parent_alias = ResolvedParentAlias(i)
          /\ ~joinLog[i].optimized =>
               /\ JoinCallOf(i).target
                    = QualifiedField(ResolvedParentAlias(i), j.relation_alias)
               /\ (SelectTypeOf(j) = "FULL_ENTITY" /\ pc # "error") =>
                    QualifiedField(ResolvedParentAlias(i), j.parent_identifier)
                      \in Range(qs.selects)

(* The second join asking for "publisher" was renamed publisher_1, and its *)
(* child join was joined on publisher_1 and put publisher_1.uuid into the  *)
(* SELECT.                                                                 *)
C22_Witness ==
  /\ pc = "done"
  /\ Len(joinLog) >= 3
  /\ \E i \in DOMAIN joinLog :
       /\ i > 1
       /\ ParentPositions(criteria.joins, 0, 0)[i] = i - 1
       /\ joinLog[i - 1].join.relation_alias = "publisher"
       /\ joinLog[i - 1].usedAlias = "publisher_1"
       /\ JoinCallOf(i).target = "publisher_1.publisher"
       /\ "publisher_1.uuid" \in Range(qb.select)

(* The cursor of a criteria has been collected under the alias and is part *)
(* of the cursor condition that closes the WHERE.                          *)
RenderedInWhere(alias, cursor) ==
  /\ \E k \in DOMAIN qs.cursors : qs.cursors[k] = <<alias, cursor>>
  /\ qs.cursorApplied
  /\ qb.wheres # <<>>
  /\ EraseParams(CursorCondition)
       = EraseParams(Brackets(QbWhere(<<>>, BuildCursorCondition(CursorParts, 0).queryFragment)))

(* The cursor of the root and the cursor of every join that was joined are *)
(* in the WHERE of a translation that has completed.                       *)
CursorsOfJoinedCriteriaAreRendered ==
  pc = "done" =>
    /\ criteria.cursor.present => RenderedInWhere(criteria.alias, criteria.cursor)
    /\ \A i \in DOMAIN joinLog :
         (joinLog[i].join.cursor.present /\ ~joinLog[i].optimized) =>
           RenderedInWhere(joinLog[i].usedAlias, joinLog[i].join.cursor)

(* C23: when a translation completes, the cursor of the root and the       *)
(* cursor of every join of the criteria, elided or not and whatever its    *)
(* selection strategy, is part of the cursor condition in the WHERE.       *)
C23_NoCursorIsDiscarded ==
  pc = "done" =>
    /\ criteria.cursor.present => RenderedInWhere(criteria.alias, criteria.cursor)
    /\ \A i \in DOMAIN joinLog :
         joinLog[i].join.cursor.present =>
           RenderedInWhere(joinLog[i].usedAlias, joinLog[i].join.cursor)

(* A translation has completed whose only cursor hangs on an elided join:  *)
(* nothing was collected and the query has no WHERE.                       *)
ElidedCursorIsDropped ==
  /\ pc = "done"
  /\ Len(joinLog) = 1 /\ joinLog[1].optimized /\ joinLog[1].join.cursor.present
  /\ qs.cursors = <<>> /\ qb.wheres = <<>> /\ qb.params = <<>>

(* What the conditions of the model speak of behind the alias: the fields  *)
(* of the filters and the paths into the document field.                   *)
FilterFields ==
  {"title", "metadata", "categories", "created_at", "body"}
    \cup {"metadata" \o " #>> " \o k : k \in {"a", "b"}}

(* A condition with the alias that qualifies its fields exchanged.         *)
Requalify(toks, from, to) ==
  [i \in DOMAIN toks |->
     IF toks[i].t = "atom" /\ \E field \in FilterFields :
                                toks[i].f = QualifiedField(from, field)
       THEN [toks[i] EXCEPT !.f = QualifiedField(to,
                                    CHOOSE field \in FilterFields :
                                      toks[i].f = QualifiedField(from, field))]
     ELSE toks[i]]

(* visitRoot on a filter group under an alias: the WHERE it applies and    *)
(* the parameters it binds.                                                *)
RootConditionOf(group, alias) ==
  LET r == ProcessGroupItems(group.items, alias, group.logicalOperator, 1,
                             Applied("", <<>>, <<>>, 0))
  IN  [condition |-> WhereClausesExpression(QbWhere(<<>>, Brackets(r.wheres)), 1),
       parameters |-> r.parameters]

(* The ON condition is the WHERE condition without the brackets around the *)
(* whole: the same text, hence the same items in the same order under the  *)
(* same connectives and brackets, read alike by PostgreSQL, over the same  *)
(* values.                                                                 *)
SameExpression(on, onParams, where, whereParams) ==
  /\ EraseParams(where) = <<LP>> \o EraseParams(on) \o <<RP>>
  /\ Parse(EraseParams(where)) = Parse(EraseParams(on))
  /\ ParamValues(whereParams) = ParamValues(onParams)

SortFields(c) ==
  {c.orders[i].field : i \in DOMAIN c.orders}
    \cup (IF c.cursor.present THEN {c.cursor.filters[i].field : i \in DOMAIN c.cursor.filters}
          ELSE {})

(* C25: the SELECT list of a completed translation holds, under the alias  *)
(* of the root and under the alias given to every FULL_ENTITY join, every  *)
(* field that an order entry or a cursor part of that criteria uses,       *)
(* whether the select list of the criteria names the field or not.         *)
C25_SortFieldsAreSelected ==
  pc = "done" =>
    /\ \A field \in SortFields(criteria) :
         QualifiedField(criteria.alias, field) \in Range(qb.select)
    /\ \A i \in DOMAIN joinLog :
         SelectTypeOf(joinLog[i].join) = "FULL_ENTITY" =>
           \A field \in SortFields(joinLog[i].join) :
             QualifiedField(joinLog[i].usedAlias, field) \in Range(qb.select)

(* The root selects title only and is ordered by created_at; its           *)
(* FULL_ENTITY join selects username only, is ordered by bio and carries a *)
(* cursor on bio: post.created_at and the join's bio are in the SELECT.    *)
C25_Witness ==
  /\ pc = "done"
  /\ criteria.select = <<"title">> /\ "created_at" \in SortFields(criteria)
  /\ "post.created_at" \in Range(qb.select)
  /\ \E i \in DOMAIN joinLog :
       /\ SelectTypeOf(joinLog[i].join) = "FULL_ENTITY"
       /\ joinLog[i].join.select = <<"username">>
       /\ joinLog[i].join.cursor.present
       /\ SortFields(joinLog[i].join) = {"bio"}
       /\ QualifiedField(joinLog[i].usedAlias, "bio") \in Range(qb.select)

(* The step that processes a FULL_ENTITY join, when it does not throw.     *)
ProcessesFullEntityJoin ==
  VisitsJoin /\ SelectTypeOf(Head(pendingJoins)) = "FULL_ENTITY" /\ pc' # "error"

(* What the step that processes the FULL_ENTITY join j under the alias     *)
(* joinAlias does whatever the select list of j: it adds the identifier    *)
(* field of the joined entity, the identifier field of the parent and the  *)
(* select fields of j to the SELECT set, removes nothing from it, and      *)
(* records the orders and the cursor of j under joinAlias.                 *)
RecordsTheJoinedCriteria(j, joinAlias) ==
  /\ QualifiedField(joinAlias, j.identifierField) \in Range(qs.selects')
  /\ QualifiedField(j.parent_alias, j.parent_identifier) \in Range(qs.selects')
  /\ \A i \in DOMAIN j.select : QualifiedField(joinAlias, j.select[i]) \in Range(qs.selects')
  /\ Range(qs.selects) \subseteq Range(qs.selects')
  /\ qs.orderBy' = qs.orderBy \o [i \in DOMAIN j.orders |-> <<joinAlias, j.orders[i]>>]
  /\ qs.cursors' = IF j.cursor.present THEN Append(qs.cursors, <<joinAlias, j.cursor>>)
                   ELSE qs.cursors

FullEntityAliasSelected ==
  /\ pc = "done"
  /\ \E i \in DOMAIN joinLog :
       /\ SelectTypeOf(joinLog[i].join) = "FULL_ENTITY" /\ joinLog[i].join.select = <<>>
       /\ joinLog[i].usedAlias = "publisher_1"
       /\ "publisher_1" \in Range(qb.select)

(* The field names a criteria or its join parameters can put behind an     *)
(* alias in the SELECT set.                                                *)
FieldNamesOf(c) ==
  {c.identifierField} \cup Range(c.select) \cup SortFields(c)

JoinFieldNamesOf(j) ==
  FieldNamesOf(j) \cup {j.parent_identifier, j.local_field, j.relation_alias}

FieldNames ==
  FieldNamesOf(criteria) \cup UNION {JoinFieldNamesOf(joinLog[i].join) : i \in DOMAIN joinLog}

(* The entries of a SELECT list that an alias qualifies, the alias itself  *)
(* included.                                                               *)
SelectedUnder(alias, select) ==
  {s \in Range(select) :
     s = alias \/ \E field \in FieldNames : s = QualifiedField(alias, field)}

(* C27: the SELECT list of a completed translation has no entry under the  *)
(* alias given to a NO_SELECTION join, whatever child joins, orders or     *)
(* cursor the join carries.                                                *)
C27_NoSelectionJoinIsAbsentFromSelect ==
  pc = "done" =>
    \A i \in DOMAIN joinLog :
      SelectTypeOf(joinLog[i].join) = "NO_SELECTION" =>
        SelectedUnder(joinLog[i].usedAlias, qb.select) = {}

(* A NO_SELECTION join without child joins leaves no entry under its alias *)
(* in the SELECT list, whatever its orders and its cursor.                 *)
ChildlessNoSelectionJoinIsAbsent ==
  pc = "done" =>
    \A i \in DOMAIN joinLog :
      (SelectTypeOf(joinLog[i].join) = "NO_SELECTION" /\ joinLog[i].join.joins = <<>>) =>
        SelectedUnder(joinLog[i].usedAlias, qb.select) = {}

(* A NO_SELECTION join "publisher" with a FULL_ENTITY child join has been  *)
(* translated: the child put publisher.uuid, the identifier of its parent, *)
(* into the SELECT list.                                                   *)
NoSelectionParentIdentifierSelected ==
  /\ pc = "done"
  /\ Len(joinLog) = 2
  /\ SelectTypeOf(joinLog[1].join) = "NO_SELECTION" /\ joinLog[1].usedAlias = "publisher"
  /\ SelectTypeOf(joinLog[2].join) = "FULL_ENTITY"
  /\ joinLog[2].join.parent_alias = "publisher"
  /\ "publisher.uuid" \in Range(qb.select)

(* The positive operator a negated list operator on native arrays negates. *)
PositiveSetOperator(op) ==
  IF op = "SET_NOT_CONTAINS_ANY" THEN "SET_CONTAINS_ANY" ELSE "SET_CONTAINS_ALL"

(* Whether PostgreSQL takes a row whose column holds the array: whether    *)
(* the condition is true on it.                                            *)
Matches(queryFragment, parameters, column, array) ==
  Truth(Parse(queryFragment), RowWorld([f \in {column} |-> array], parameters)) = "T"

(* The fragment of the negated operator is true on a row exactly when the  *)
(* fragment of the positive operator on the same list is not, and it is    *)
(* true on the rows whose array is NULL; its per-element checks are the    *)
(* negated ones, under AND where the positive form has OR and under OR     *)
(* where it has AND.                                                       *)
NegatesThePositiveForm(negated, positive) ==
  LET column == negated.alias \o "." \o negated.filter.field
      checks == {i \in DOMAIN negated.queryFragment :
                   negated.queryFragment[i].t = "atom"
                     /\ negated.queryFragment[i].o = "CONTAINS"}
  IN  /\ \A array \in Arrays :
           /\ Matches(negated.queryFragment, negated.parameters, column, array)
                <=> ~Matches(positive.queryFragment, positive.parameters, column, array)
           /\ array.isNull =>
                Matches(negated.queryFragment, negated.parameters, column, array)
      /\ \A i \in checks : i > 2 /\ negated.queryFragment[i - 2].t = "NOT"
      /\ \A i \in DOMAIN negated.queryFragment :
           (i > 4 /\ negated.queryFragment[i].t \in {"AND", "OR"}) =>
             negated.queryFragment[i].t
               = IF negated.filter.operator = "SET_NOT_CONTAINS_ANY" THEN "AND" ELSE "OR"

NegatedSetListFragment ==
  fragment.ok /\ fragment.filter.operator \in {"SET_NOT_CONTAINS_ANY", "SET_NOT_CONTAINS_ALL"}

(* C28: the fragment rendered for SET_NOT_CONTAINS_ANY or                  *)
(* SET_NOT_CONTAINS_ALL, read by PostgreSQL, is true on a row exactly when *)
(* the fragment rendered for the positive operator on the same list is     *)
(* not: the membership checks are negated and the combinator exchanged,    *)
(* and a row whose array is NULL matches.                                  *)
C28_NegatedSetListIsTheComplement ==
  NegatedSetListFragment =>
    NegatesThePositiveForm(fragment,
      Build([fragment.filter EXCEPT !.operator = PositiveSetOperator(@)], fragment.alias, 0))

(* For a list that is not empty the negated form is the complement.        *)
NegatedSetListIsTheComplementOnValues ==
  (NegatedSetListFragment /\ fragment.filter.value # <<>>) =>
    NegatesThePositiveForm(fragment,
      Build([fragment.filter EXCEPT !.operator = PositiveSetOperator(@)], fragment.alias, 0))

(* SET_NOT_CONTAINS_ANY has been rendered for the empty list: the fragment *)
(* is 1=1, the fragment of SET_CONTAINS_ANY for the empty list, and both   *)
(* match every row.                                                        *)
EmptyListMatchesBothWays ==
  /\ NegatedSetListFragment
  /\ fragment.filter.operator = "SET_NOT_CONTAINS_ANY" /\ fragment.filter.value = <<>>
  /\ fragment.queryFragment = <<Atom("1", "=", <<"1">>)>>
  /\ Build([fragment.filter EXCEPT !.operator = "SET_CONTAINS_ANY"], fragment.alias, 0).queryFragment
       = fragment.queryFragment
  /\ \A array \in Arrays :
       Matches(fragment.queryFragment, fragment.parameters,
               fragment.alias \o "." \o fragment.filter.field, array)

-----------------------------------------------------------------------------
(* The negated operators on an array nested in a document column.          *)

NegatedElementOperators ==
  {"ARRAY_NOT_CONTAINS_ELEMENT", "ARRAY_NOT_CONTAINS_ANY_ELEMENT",
   "ARRAY_NOT_CONTAINS_ALL_ELEMENTS"}

NegatedElementFragment == fragment.ok /\ fragment.filter.operator \in NegatedElementOperators

(* The elements a filter on a nested array names: the one element, or the  *)
(* elements of its list.                                                   *)
ElementsAsked(filter) ==
  IF filter.operator \in ElementOperators THEN <<filter.value[1].x>>
  ELSE filter.value[1].x.elements

(* The negated per-element checks on an array, under the combinator of the *)
(* negated operator: no element of the list is in the array (the one       *)
(* element is not), or some element of the list is not.                    *)
NegatedElementChecks(filter, array) ==
  LET elements == ElementsAsked(filter)
  IN  IF filter.operator = "ARRAY_NOT_CONTAINS_ALL_ELEMENTS"
        THEN \E i \in DOMAIN elements : elements[i].v \notin array.v
      ELSE \A i \in DOMAIN elements : elements[i].v \notin array.v

MatchesTheNegatedElementRule(negated, documents) ==
  \A document \in documents :
    Matches(negated.queryFragment, negated.parameters,
            negated.alias \o "." \o negated.filter.field, document)
      <=> (document.isNull \/ NegatedElementChecks(negated.filter, document))

(* C29: the fragment rendered for ARRAY_NOT_CONTAINS_ELEMENT,              *)
(* ARRAY_NOT_CONTAINS_ANY_ELEMENT or ARRAY_NOT_CONTAINS_ALL_ELEMENTS, read *)
(* by PostgreSQL, is true on every row whose document column is NULL, and  *)
(* on a row with a document exactly when the negated per-element checks    *)
(* hold under the exchanged combinator: AND for ANY, OR for ALL.           *)
C29_NegatedElementFormsFollowTheArrayRules ==
  NegatedElementFragment => MatchesTheNegatedElementRule(fragment, Arrays)

(* The list forms over a list that is not empty follow the rule on every   *)
(* row, and the one-element form follows it on the rows that have a        *)
(* document.                                                               *)
NegatedElementFormsFollowTheRulesOnValues ==
  /\ (NegatedElementFragment /\ fragment.filter.operator \notin ElementOperators
        /\ ElementsAsked(fragment.filter) # <<>>) =>
       MatchesTheNegatedElementRule(fragment, Arrays)
  /\ (NegatedElementFragment /\ fragment.filter.operator \in ElementOperators) =>
       MatchesTheNegatedElementRule(fragment, Arrays \ {NullVal})

(* ARRAY_NOT_CONTAINS_ELEMENT has been rendered as NOT column @> :param,   *)
(* with no test for NULL: on a row whose document is NULL the condition is *)
(* unknown and the row is left out.                                        *)
NullDocumentMissesNotContainsElement ==
  /\ NegatedElementFragment
  /\ fragment.filter.operator = "ARRAY_NOT_CONTAINS_ELEMENT"
  /\ fragment.queryFragment
       = <<Tok("NOT"), Atom(fragment.alias \o ".metadata", "@>", <<"param_0">>)>>
  /\ fragment.parameters
       = <<Bind("param_0", JsonStructure("tags", ListVal(<<Val(1)>>)))>>
  /\ ~Matches(fragment.queryFragment, fragment.parameters, fragment.alias \o ".metadata",
              NullVal)

-----------------------------------------------------------------------------
(* The document-shaped operators and the values that have their shape:     *)
(* JSON_CONTAINS takes an object or an array, the JSON list operators an   *)
(* object with an array under every key, and ARRAY_EQUALS_STRICT an array  *)
(* or an object with an array under its first key.                         *)

DocumentOperators ==
  JsonContainsOperators \cup JsonListOperators \cup ArrayEqualsStrictOperators

IsNonObject(value) == ~IsObject(value)

HasTheShape(filter) ==
  LET value == filter.value
      arraysUnderKeys == IsObject(value) /\ ~IsArray(value)
                           /\ \A i \in DOMAIN value : IsListVal(value[i].x)
  IN  CASE filter.operator \in JsonContainsOperators -> IsObject(value)
        [] filter.operator \in JsonListOperators -> arraysUnderKeys
        [] OTHER -> IsArray(value)
                      \/ (IsObject(value) /\ value # <<>> /\ IsListVal(value[1].x))

(* The fragment is returned, binds nothing, and is true on no row.         *)
DegradesToAlwaysFalse ==
  /\ fragment.ok /\ fragment.error = ""
  /\ fragment.parameters = <<>>
  /\ \A document \in Arrays :
       ~Matches(fragment.queryFragment, fragment.parameters,
                fragment.alias \o "." \o fragment.filter.field, document)

VisitedDocumentOperator ==
  fragment.filter.operator \in DocumentOperators /\ fragment.alias # ""

(* C30: visitFilter on a document-shaped operator, positive or negated,    *)
(* whose value has not the shape the operator takes throws nothing and     *)
(* returns a fragment that is true on no row and binds no parameter.       *)
C30_WrongShapeDegradesToAlwaysFalse ==
  (VisitedDocumentOperator /\ ~HasTheShape(fragment.filter)) => DegradesToAlwaysFalse

(* A scalar or null, which is no object, degrades to 1=0 under each of the *)
(* eight operators, and so does an object with a scalar under its key      *)
(* under ARRAY_EQUALS_STRICT and its negation.                             *)
NonObjectOrNoArrayToCompare ==
  /\ VisitedDocumentOperator
  /\ \/ IsNonObject(fragment.filter.value)
     \/ /\ fragment.filter.operator \in ArrayEqualsStrictOperators
        /\ ~HasTheShape(fragment.filter)

NonObjectDegradesToAlwaysFalse ==
  NonObjectOrNoArrayToCompare =>
    (DegradesToAlwaysFalse /\ fragment.queryFragment = <<Atom("1", "=", <<"0">>)>>)

(* JSON_NOT_CONTAINS_ANY has been given an array where it takes an object: *)
(* no key of it holds an array, no condition is built, and the fragment is *)
(* 1=1, true on every row.                                                 *)
ArrayValueMatchesEveryRow ==
  /\ VisitedDocumentOperator /\ fragment.ok
  /\ fragment.filter.operator = "JSON_NOT_CONTAINS_ANY"
  /\ fragment.filter.value = ArrayOf(<<Val(1), Val(MaxVal)>>)
  /\ fragment.queryFragment = <<Atom("1", "=", <<"1">>)>>
  /\ fragment.parameters = <<>>
  /\ \A document \in Arrays :
       Matches(fragment.queryFragment, fragment.parameters,
               fragment.alias \o "." \o fragment.filter.field, document)

(* JSON_CONTAINS_ALL has been given an object with a scalar under its key: *)
(* the fragment is 1=1 as well.                                            *)
ScalarUnderKeyMatchesEveryRow ==
  /\ VisitedDocumentOperator /\ fragment.ok
  /\ fragment.filter.operator = "JSON_CONTAINS_ALL"
  /\ fragment.filter.value = <<Entry("tags", Val(1))>>
  /\ fragment.queryFragment = <<Atom("1", "=", <<"1">>)>>
  /\ fragment.parameters = <<>>

====
